---- MODULE Spec2Model ----
(***************************************************************************)
(* A model of mergeguard's analysis pipeline: the unified-diff parser,     *)
(* the diff-to-symbol mapper, the cross-PR conflict classifier, the        *)
(* decisions log with regression detection, the guardrails, and the       *)
(* engine that ties them together.                                         *)
(*                                                                         *)
(* Text is modelled as token sequences: a line is a sequence of tokens,    *)
(* a diff text is the sequence of lines that diff_text.split("\n") gives.  *)
(* Python's None is the string None for string fields and the empty        *)
(* sequence for optional objects (<<>> is None, <<x>> is the object x).    *)
(***************************************************************************)
EXTENDS Integers, Sequences, FiniteSets, TLC

VARIABLES
    pc,         \* "idle" | "scan" | "returned": where the current call stands
    call,       \* the call in progress: [op |-> name, ...its arguments]
    ret,        \* the value the call returned
    pos,        \* parse_unified_diff: index of the next line of the input
    scan,       \* parse_unified_diff: the loop's local variables
    decisions,  \* DecisionsLog: the rows of the decisions table, in rowid order
    repo,       \* what the hosting client serves: open PRs and file contents
    cache,      \* SymbolIndex._cache
    graph       \* DependencyGraph: edges, _forward and _reverse

vars == <<pc, call, ret, pos, scan, decisions, repo, cache, graph>>

None == "<None>"
NoCall == [op |-> "none"]
NoRet == <<>>

Range(s) == {s[i] : i \in DOMAIN s}

RECURSIVE SeqsUpTo(_, _)
\* every sequence over S of length at most n
SeqsUpTo(S, n) ==
    IF n = 0 THEN {<<>>}
    ELSE LET shorter == SeqsUpTo(S, n - 1)
         IN  shorter \cup {Append(s, x) : s \in {t \in shorter : Len(t) = n - 1}, x \in S}

RECURSIVE SetToSeq(_)
\* the elements of a finite set in some fixed order (Python iterates a set in
\* an order the program does not control)
SetToSeq(S) ==
    IF S = {} THEN <<>>
    ELSE LET x == CHOOSE y \in S : TRUE IN <<x>> \o SetToSeq(S \ {x})

RECURSIVE Flatten(_)
Flatten(ss) == IF ss = <<>> THEN <<>> ELSE Head(ss) \o Flatten(Tail(ss))

Min(S) == CHOOSE x \in S : \A y \in S : x <= y
Max(S) == CHOOSE x \in S : \A y \in S : x >= y

(***************************************************************************)
(* analysis/diff_parser.py                                                 *)
(***************************************************************************)

\* a group of HUNK_HEADER that did not take part in the match
NoCount == 0 - 1

\* the line "diff --git a/X b/Y"
DiffHeaderLine(X, Y) == <<"diff --git a/", X, " b/", Y>>
\* the line "@@ -a,m +b,n @@" (m or n NoCount: "@@ -a +b @@")
HunkHeaderLine(a, m, b, n) == <<"@@ -", a, m, b, n>>
NewFileLine == <<"new file", " mode 100644">>
DeletedFileLine == <<"deleted file", " mode 100644">>

DIFF_HEADER_match(line) ==
    /\ Len(line) = 4
    /\ line[1] = "diff --git a/"
    /\ line[3] = " b/"

HUNK_HEADER_match(line) ==
    /\ Len(line) = 5
    /\ line[1] = "@@ -"

\* str.startswith for a prefix given as tokens
startswith(line, prefix) ==
    /\ Len(line) >= Len(prefix)
    /\ \A i \in 1..Len(prefix) : line[i] = prefix[i]

FileDiff(path, old_path) ==
    [path |-> path, old_path |-> old_path, hunks |-> <<>>,
     is_new |-> FALSE, is_deleted |-> FALSE]

DiffHunk(old_start, old_count, new_start, new_count) ==
    [old_start |-> old_start, old_count |-> old_count,
     new_start |-> new_start, new_count |-> new_count,
     added_lines |-> <<>>, removed_lines |-> <<>>, context_lines |-> <<>>]

\* the locals of parse_unified_diff before its loop
ScanInit ==
    [files |-> <<>>, current_file |-> <<>>, current_hunk |-> <<>>,
     new_line_num |-> 0, old_line_num |-> 0]

\* current_file after "if current_hunk: current_file.hunks.append(current_hunk)"
FlushHunk(st) ==
    IF st.current_file # <<>> /\ st.current_hunk # <<>>
    THEN <<[st.current_file[1] EXCEPT !.hunks = Append(@, st.current_hunk[1])]>>
    ELSE st.current_file

\* a flush that forgets the open hunk
FlushFile_LosesOpenHunk(st) ==
    IF st.current_file # <<>> THEN Append(st.files, st.current_file[1]) ELSE st.files

\* files after "if current_file and current_hunk: ...append(current_hunk)" and
\* "if current_file: files.append(current_file)"
FlushFile(st) ==
    IF st.current_file # <<>> THEN Append(st.files, FlushHunk(st)[1]) ELSE st.files

OnDiffHeader(st, line) ==
    LET old_path == line[2]
        new_path == line[4]
    IN  [st EXCEPT
            !.files = FlushFile(st),
            !.current_file =
                <<FileDiff(new_path, IF old_path # new_path THEN old_path ELSE None)>>,
            !.current_hunk = <<>>]

OnHunkHeader(st, line) ==
    LET old_start == line[2]
        old_count == IF line[3] = NoCount THEN 1 ELSE line[3]
        new_start == line[4]
        new_count == IF line[5] = NoCount THEN 1 ELSE line[5]
    IN  [st EXCEPT
            !.current_file = FlushHunk(st),
            !.current_hunk = <<DiffHunk(old_start, old_count, new_start, new_count)>>,
            !.new_line_num = new_start,
            !.old_line_num = old_start]

OnContentLine(st, line) ==
    IF startswith(line, <<"+">>) /\ ~startswith(line, <<"+", "+", "+">>)
    THEN [st EXCEPT
            !.current_hunk[1].added_lines = Append(@, <<st.new_line_num, Tail(line)>>),
            !.new_line_num = @ + 1]
    ELSE IF startswith(line, <<"-">>) /\ ~startswith(line, <<"-", "-", "-">>)
    THEN [st EXCEPT
            !.current_hunk[1].removed_lines = Append(@, <<st.old_line_num, Tail(line)>>),
            !.old_line_num = @ + 1]
    ELSE IF startswith(line, <<" ">>)
    THEN [st EXCEPT
            !.current_hunk[1].context_lines = Append(@, <<st.new_line_num, Tail(line)>>),
            !.new_line_num = @ + 1,
            !.old_line_num = @ + 1]
    ELSE st

\* one iteration of the loop over diff_text.split("\n")
ParseLine(st, line) ==
    IF DIFF_HEADER_match(line) THEN OnDiffHeader(st, line)
    ELSE IF st.current_file = <<>> THEN st
    ELSE IF startswith(line, <<"new file">>)
    THEN [st EXCEPT !.current_file[1].is_new = TRUE]
    ELSE IF startswith(line, <<"deleted file">>)
    THEN [st EXCEPT !.current_file[1].is_deleted = TRUE]
    ELSE IF HUNK_HEADER_match(line) THEN OnHunkHeader(st, line)
    ELSE IF st.current_hunk = <<>> THEN st
    ELSE OnContentLine(st, line)

RECURSIVE ScanLines(_, _)
ScanLines(st, lines) ==
    IF lines = <<>> THEN st ELSE ScanLines(ParseLine(st, Head(lines)), Tail(lines))

\* parse_unified_diff on the lines of its text
parse_unified_diff(lines) == FlushFile(ScanLines(ScanInit, lines))

\* a variant that takes the first and the last added line for the bounds
all_modified_line_ranges_FirstLast(fd) ==
    LET withAdded == SelectSeq(fd.hunks, LAMBDA h : h.added_lines # <<>>)
    IN  [i \in DOMAIN withAdded |->
            <<withAdded[i].added_lines[1][1],
              withAdded[i].added_lines[Len(withAdded[i].added_lines)][1]>>]

\* FileDiff.all_modified_line_ranges
all_modified_line_ranges(fd) ==
    LET withAdded == SelectSeq(fd.hunks, LAMBDA h : h.added_lines # <<>>)
        nums(h) == {h.added_lines[i][1] : i \in DOMAIN h.added_lines}
    IN  [i \in DOMAIN withAdded |-> <<Min(nums(withAdded[i])), Max(nums(withAdded[i]))>>]

(***************************************************************************)
(* models.py                                                               *)
(***************************************************************************)

Symbol(name, file_path, start_line, end_line, dependencies) ==
    [name |-> name, file_path |-> file_path, start_line |-> start_line,
     end_line |-> end_line, dependencies |-> dependencies]

ChangedSymbol(symbol, change_type, diff_lines) ==
    [symbol |-> symbol, change_type |-> change_type, diff_lines |-> diff_lines]

ChangedFile(path, patch, additions, deletions) ==
    [path |-> path, patch |-> patch, additions |-> additions, deletions |-> deletions]

PRInfo(number, changed_files, changed_symbols, ai_attribution) ==
    [number |-> number, changed_files |-> changed_files,
     changed_symbols |-> changed_symbols, ai_attribution |-> ai_attribution]

\* PRInfo.file_paths
file_paths(pr) == {pr.changed_files[i].path : i \in DOMAIN pr.changed_files}
\* PRInfo.symbol_names
symbol_names(pr) == {pr.changed_symbols[i].symbol.name : i \in DOMAIN pr.changed_symbols}

\* a Conflict without its description and recommendation texts
Conflict(conflict_type, severity, source_pr, target_pr, file_path, symbol_name) ==
    [conflict_type |-> conflict_type, severity |-> severity, source_pr |-> source_pr,
     target_pr |-> target_pr, file_path |-> file_path, symbol_name |-> symbol_name]

(***************************************************************************)
(* analysis/ast_parser.py: map_diff_to_symbols                             *)
(***************************************************************************)

RangesOverlap(a_start, a_end, b_start, b_end) == a_start <= b_end /\ b_start <= a_end

RECURSIVE AffectedByEvery(_, _)
\* the inner loop without its break
AffectedByEvery(symbol, modified_ranges) ==
    IF modified_ranges = <<>> THEN <<>>
    ELSE LET r == Head(modified_ranges) IN
         (IF symbol.start_line <= r[2] /\ r[1] <= symbol.end_line
          THEN <<symbol>> ELSE <<>>) \o AffectedByEvery(symbol, Tail(modified_ranges))

RECURSIVE AffectedOnce(_, _)
\* the inner loop of map_diff_to_symbols: what one symbol appends to affected
AffectedOnce(symbol, modified_ranges) ==
    IF modified_ranges = <<>> THEN <<>>
    ELSE LET r == Head(modified_ranges) IN
         IF symbol.start_line <= r[2] /\ r[1] <= symbol.end_line
         THEN <<symbol>>
         ELSE AffectedOnce(symbol, Tail(modified_ranges))

map_diff_to_symbols(symbols, modified_ranges) ==
    Flatten([i \in DOMAIN symbols |-> AffectedOnce(symbols[i], modified_ranges)])

(***************************************************************************)
(* core/conflict.py                                                        *)
(***************************************************************************)

FileOverlap(file_path, pr_a, pr_b, pr_a_lines, pr_b_lines) ==
    [file_path |-> file_path, pr_a |-> pr_a, pr_b |-> pr_b,
     pr_a_lines |-> pr_a_lines, pr_b_lines |-> pr_b_lines]

\* an overlap test that misses ranges sharing only an endpoint line
has_line_overlap_Strict(overlap) ==
    \E i \in DOMAIN overlap.pr_a_lines, j \in DOMAIN overlap.pr_b_lines :
        /\ overlap.pr_a_lines[i][1] < overlap.pr_b_lines[j][2]
        /\ overlap.pr_b_lines[j][1] < overlap.pr_a_lines[i][2]

\* FileOverlap.has_line_overlap
has_line_overlap(overlap) ==
    \E i \in DOMAIN overlap.pr_a_lines, j \in DOMAIN overlap.pr_b_lines :
        /\ overlap.pr_a_lines[i][1] <= overlap.pr_b_lines[j][2]
        /\ overlap.pr_b_lines[j][1] <= overlap.pr_a_lines[i][2]

\* {cs.symbol.name for cs in pr.changed_symbols if cs.symbol.file_path == path}
SymbolNamesIn(pr, path) ==
    {pr.changed_symbols[i].symbol.name :
        i \in {j \in DOMAIN pr.changed_symbols : pr.changed_symbols[j].symbol.file_path = path}}

\* the hard branch of classify_conflicts for one overlap
HardConflicts(target_pr, other_pr, overlap) ==
    LET shared_symbols == SymbolNamesIn(target_pr, overlap.file_path)
                              \cap SymbolNamesIn(other_pr, overlap.file_path)
        names == SetToSeq(shared_symbols)
    IN  IF shared_symbols # {}
        THEN [k \in DOMAIN names |->
                Conflict("hard", "critical", target_pr.number, other_pr.number,
                         overlap.file_path, names[k])]
        ELSE <<Conflict("hard", "warning", target_pr.number, other_pr.number,
                        overlap.file_path, None)>>

\* a behavioral check that matches entity names across files
check_behavioral_conflict_AnyFile(target_pr, other_pr, overlap) ==
    LET names == SetToSeq(symbol_names(target_pr) \cap symbol_names(other_pr))
    IN  [k \in DOMAIN names |->
            Conflict("behavioral", "warning", target_pr.number, other_pr.number,
                     overlap.file_path, names[k])]

\* a behavioral check that reports every changed entity of the target PR
check_behavioral_conflict_TargetOnly(target_pr, other_pr, overlap) ==
    LET names == SetToSeq(SymbolNamesIn(target_pr, overlap.file_path))
    IN  [k \in DOMAIN names |->
            Conflict("behavioral", "warning", target_pr.number, other_pr.number,
                     overlap.file_path, names[k])]

\* _check_behavioral_conflict: the conflicts it appends
check_behavioral_conflict(target_pr, other_pr, overlap) ==
    LET shared_symbols == SymbolNamesIn(target_pr, overlap.file_path)
                              \cap SymbolNamesIn(other_pr, overlap.file_path)
        names == SetToSeq(shared_symbols)
    IN  [k \in DOMAIN names |->
            Conflict("behavioral", "warning", target_pr.number, other_pr.number,
                     overlap.file_path, names[k])]

\* an interface check that reports a changed signature once, not once per caller
check_interface_conflicts_FirstCaller(target_pr, other_pr) ==
    LET forSymbol(cs) ==
            IF /\ cs.change_type = "modified_signature"
               /\ \E j \in DOMAIN other_pr.changed_symbols :
                    cs.symbol.name \in other_pr.changed_symbols[j].symbol.dependencies
            THEN <<Conflict("interface", "critical", target_pr.number, other_pr.number,
                            cs.symbol.file_path, cs.symbol.name)>>
            ELSE <<>>
    IN  Flatten([i \in DOMAIN target_pr.changed_symbols |->
                    forSymbol(target_pr.changed_symbols[i])])

\* _check_interface_conflicts: the conflicts it appends
check_interface_conflicts(target_pr, other_pr) ==
    LET callers(cs) ==
            SelectSeq(other_pr.changed_symbols,
                      LAMBDA other_cs : cs.symbol.name \in other_cs.symbol.dependencies)
        forSymbol(cs) ==
            IF cs.change_type = "modified_signature"
            THEN [j \in DOMAIN callers(cs) |->
                    Conflict("interface", "critical", target_pr.number, other_pr.number,
                             cs.symbol.file_path, cs.symbol.name)]
            ELSE <<>>
    IN  Flatten([i \in DOMAIN target_pr.changed_symbols |->
                    forSymbol(target_pr.changed_symbols[i])])

classify_conflicts(target_pr, other_pr, file_overlaps) ==
    Flatten([i \in DOMAIN file_overlaps |->
                IF has_line_overlap(file_overlaps[i])
                THEN HardConflicts(target_pr, other_pr, file_overlaps[i])
                ELSE check_behavioral_conflict(target_pr, other_pr, file_overlaps[i])])
        \o check_interface_conflicts(target_pr, other_pr)

(***************************************************************************)
(* storage/decisions_log.py and core/regression.py                         *)
(***************************************************************************)

\* the default of get_recent_decisions' limit
RecentLimit == 50

\* a Decision as record_merge reads it (pr_number, merged_at and author are
\* taken from the entry, not from the decision)
Decision(decision_type, entity, file_path) ==
    [decision_type |-> decision_type, entity |-> entity, file_path |-> file_path]

DecisionsEntry(pr_number, merged_at, decisions_of) ==
    [pr_number |-> pr_number, merged_at |-> merged_at, decisions |-> decisions_of]

\* DecisionsLog.record_merge: one row per decision of the entry, appended
record_merge(rows, entry) ==
    rows \o [i \in DOMAIN entry.decisions |->
                [pr_number |-> entry.pr_number,
                 merged_at |-> entry.merged_at,
                 decision_type |-> entry.decisions[i].decision_type,
                 entity |-> entry.decisions[i].entity,
                 file_path |-> entry.decisions[i].file_path]]

\* DecisionsLog.get_recent_decisions: ORDER BY merged_at DESC LIMIT limit
\* (rows of equal merged_at in rowid order, as the merged_at index yields them)
get_recent_decisions(rows, limit) ==
    LET rank(i) == 1 + Cardinality({j \in DOMAIN rows :
                        \/ rows[j].merged_at > rows[i].merged_at
                        \/ rows[j].merged_at = rows[i].merged_at /\ j < i})
        n == IF Len(rows) < limit THEN Len(rows) ELSE limit
    IN  [k \in 1..n |-> rows[CHOOSE i \in DOMAIN rows : rank(i) = k]]

\* a lookup that takes every kind of decision for a removal
find_regressions_AnyKind(rows, pr_symbols, pr_files) ==
    SelectSeq(get_recent_decisions(rows, RecentLimit),
              LAMBDA decision : decision.entity \in pr_symbols)

\* DecisionsLog.find_regressions
find_regressions(rows, pr_symbols, pr_files) ==
    SelectSeq(get_recent_decisions(rows, RecentLimit),
              LAMBDA decision :
                IF decision.decision_type = "removal"
                THEN decision.entity \in pr_symbols
                ELSE IF decision.decision_type = "migration"
                THEN decision.file_path # None /\ decision.file_path \in pr_files
                ELSE FALSE)

\* a conversion that rates a regression CRITICAL
decision_to_conflict_Critical(pr_number, decision) ==
    Conflict("regression", "critical", pr_number, decision.pr_number,
             IF decision.file_path # None THEN decision.file_path ELSE "<unknown>",
             decision.entity)

\* _decision_to_conflict
decision_to_conflict(pr_number, decision) ==
    Conflict("regression", "warning", pr_number, decision.pr_number,
             IF decision.file_path # None THEN decision.file_path ELSE "<unknown>",
             decision.entity)

detect_regressions(pr, rows) ==
    LET regressions == find_regressions(rows, symbol_names(pr), file_paths(pr))
    IN  [i \in DOMAIN regressions |-> decision_to_conflict(pr.number, regressions[i])]

(***************************************************************************)
(* core/guardrails.py                                                      *)
(***************************************************************************)

\* an absent max_files_changed / max_lines_changed
NoLimit == 0 - 1

GuardrailRule(when, max_files_changed, max_lines_changed) ==
    [when |-> when, max_files_changed |-> max_files_changed,
     max_lines_changed |-> max_lines_changed]

RECURSIVE total_lines(_)
\* sum(f.additions + f.deletions for f in changed_files)
total_lines(changed_files) ==
    IF changed_files = <<>> THEN 0
    ELSE Head(changed_files).additions + Head(changed_files).deletions
            + total_lines(Tail(changed_files))

\* _check_rule
check_rule(pr, rule) ==
    (IF rule.max_files_changed # NoLimit /\ Len(pr.changed_files) > rule.max_files_changed
     THEN <<Conflict("regression", "warning", pr.number, pr.number, "<repo>", None)>>
     ELSE <<>>)
    \o
    (IF rule.max_lines_changed # NoLimit
            /\ total_lines(pr.changed_files) > rule.max_lines_changed
     THEN <<Conflict("regression", "warning", pr.number, pr.number, "<repo>", None)>>
     ELSE <<>>)

\* pr.ai_attribution.value.startswith("ai")
IsAiAttribution(value) == value \in {"ai_confirmed", "ai_suspected"}

enforce_guardrails(pr, rules) ==
    Flatten([i \in DOMAIN rules |->
                IF rules[i].when = "ai_authored" /\ ~IsAiAttribution(pr.ai_attribution)
                THEN <<>>
                ELSE check_rule(pr, rules[i])])

(***************************************************************************)
(* analysis/similarity.py.  A float is kept as the exact fraction          *)
(* <<numerator, denominator>> with a positive denominator; a name is the   *)
(* sequence of its characters, the text of a signature the sequence of its *)
(* words and the separators between them.                                  *)
(***************************************************************************)

Frac(n, d) == <<n, d>>
FracEq(x, y) == x[1] * y[2] = y[1] * x[2]
FracLeq(x, y) == x[1] * y[2] <= y[1] * x[2]
FracLess(x, y) == x[1] * y[2] < y[1] * x[2]
FracAdd(x, y) == <<x[1] * y[2] + y[1] * x[2], x[2] * y[2]>>
FracMul(x, y) == <<x[1] * y[1], x[2] * y[2]>>

\* a Jaccard that divides by the size of the larger set
jaccard_similarity_OverLarger(set_a, set_b) ==
    IF set_a = {} /\ set_b = {} THEN Frac(0, 1)
    ELSE Frac(Cardinality(set_a \cap set_b),
              Max({Cardinality(set_a), Cardinality(set_b)}))

\* jaccard_similarity
jaccard_similarity(set_a, set_b) ==
    IF set_a = {} /\ set_b = {} THEN Frac(0, 1)
    ELSE Frac(Cardinality(set_a \cap set_b), Cardinality(set_a \cup set_b))

\* the characters between the words of a signature
Separators == {" ", "(", ")", ",", ":"}

\* _tokenize_signature: the words of the signature
tokenize_signature(signature) ==
    {signature[i] : i \in {j \in DOMAIN signature : signature[j] \notin Separators}}

\* a Symbol.signature: <<>> for None, <<text>> for a text
NoSignature == <<>>

\* "not sig": None or the empty text
SignatureIsFalsy(sig) == sig = NoSignature \/ sig = <<<<>>>>

\* signature_similarity
signature_similarity(sig_a, sig_b) ==
    IF SignatureIsFalsy(sig_a) \/ SignatureIsFalsy(sig_b) THEN Frac(0, 1)
    ELSE jaccard_similarity(tokenize_signature(sig_a[1]), tokenize_signature(sig_b[1]))

\* str.lower on one character
LowerChar(c) ==
    IF c = "A" THEN "a" ELSE IF c = "B" THEN "b" ELSE IF c = "L" THEN "l" ELSE c

\* name.lower().replace("_", "")
NormalizeName(name) ==
    LET lowered == [i \in DOMAIN name |-> LowerChar(name[i])]
    IN  SelectSeq(lowered, LAMBDA c : c # "_")

\* _name_distance
name_distance(name_a, name_b) ==
    LET norm_a == NormalizeName(name_a)
        norm_b == NormalizeName(name_b)
        \* min(norm_a, norm_b, key=len) and max(norm_a, norm_b, key=len): the
        \* first argument unless the second is strictly shorter / longer
        shorter == IF Len(norm_b) < Len(norm_a) THEN norm_b ELSE norm_a
        longer == IF Len(norm_b) > Len(norm_a) THEN norm_b ELSE norm_a
        chars_a == Range(norm_a)
        chars_b == Range(norm_b)
    IN  IF name_a = name_b THEN Frac(1, 1)
        ELSE IF norm_a = norm_b THEN Frac(95, 100)
        ELSE IF startswith(longer, shorter) /\ Len(shorter) > 3 THEN Frac(7, 10)
        ELSE FracMul(Frac(Cardinality(chars_a \cap chars_b),
                          Max({Cardinality(chars_a \cup chars_b), 1})),
                     Frac(1, 2))

\* a Symbol with the fields detect_potential_duplications reads
TypedSymbol(name, symbol_type, signature) ==
    [symbol_type |-> symbol_type, signature |-> signature]
        @@ Symbol(name, "a.py", 1, 1, {})

\* the combined score of a pair
CombinedScore(new_sym, other_sym) ==
    FracAdd(FracMul(name_distance(new_sym.name, other_sym.name), Frac(4, 10)),
            FracMul(signature_similarity(new_sym.signature, other_sym.signature),
                    Frac(6, 10)))

\* a detection that compares symbols of different kinds too
detect_potential_duplications_AnyKind(new_symbols, other_symbols, name_threshold, signature_threshold) ==
    Flatten([i \in DOMAIN new_symbols |->
        Flatten([j \in DOMAIN other_symbols |->
            LET new_sym == new_symbols[i]
                other_sym == other_symbols[j]
            IN  IF FracLess(name_distance(new_sym.name, other_sym.name), name_threshold)
                THEN <<>>
                ELSE IF FracLeq(signature_threshold, CombinedScore(new_sym, other_sym))
                THEN <<<<new_sym, other_sym, CombinedScore(new_sym, other_sym)>>>>
                ELSE <<>>])])

\* detect_potential_duplications
detect_potential_duplications(new_symbols, other_symbols, name_threshold, signature_threshold) ==
    Flatten([i \in DOMAIN new_symbols |->
        Flatten([j \in DOMAIN other_symbols |->
            LET new_sym == new_symbols[i]
                other_sym == other_symbols[j]
            IN  IF new_sym.symbol_type # other_sym.symbol_type THEN <<>>
                ELSE IF FracLess(name_distance(new_sym.name, other_sym.name), name_threshold)
                THEN <<>>
                ELSE IF FracLeq(signature_threshold, CombinedScore(new_sym, other_sym))
                THEN <<<<new_sym, other_sym, CombinedScore(new_sym, other_sym)>>>>
                ELSE <<>>])])

(***************************************************************************)
(* analysis/dependency.py                                                  *)
(***************************************************************************)

\* the default of max_depth in get_dependents and get_dependencies
DefaultMaxDepth == 5

ImportEdge(source_file, target_file, imported_names) ==
    [source_file |-> source_file, target_file |-> target_file,
     imported_names |-> imported_names]

\* DependencyGraph(): no edge, empty adjacency dicts
DependencyGraph == [edges |-> <<>>, forward |-> <<>>, reverse |-> <<>>]

\* d.setdefault(key, set()).add(value)
SetDefaultAdd(d, key, value) ==
    [k \in DOMAIN d \cup {key} |->
        IF k = key THEN (IF key \in DOMAIN d THEN d[key] ELSE {}) \cup {value}
        ELSE d[k]]

\* DependencyGraph.add_edge
add_edge(g, edge) ==
    [edges |-> Append(g.edges, edge),
     forward |-> SetDefaultAdd(g.forward, edge.source_file, edge.target_file),
     reverse |-> SetDefaultAdd(g.reverse, edge.target_file, edge.source_file)]

\* d.get(key, set())
GetOrEmpty(d, key) == IF key \in DOMAIN d THEN d[key] ELSE {}

RECURSIVE Traverse(_, _, _, _)
\* the while loop of get_dependents / get_dependencies over the adjacency
\* dict: the visited set when the queue is empty
Traverse(adjacency, visited, queue, max_depth) ==
    IF queue = <<>> THEN visited
    ELSE LET current == Head(queue)[1]
             depth == Head(queue)[2]
             deps == SetToSeq(GetOrEmpty(adjacency, current))
         IN  IF current \in visited \/ depth > max_depth
             THEN Traverse(adjacency, visited, Tail(queue), max_depth)
             ELSE Traverse(adjacency, visited \cup {current},
                           Tail(queue) \o [i \in DOMAIN deps |-> <<deps[i], depth + 1>>],
                           max_depth)

RECURSIVE TraverseShallow(_, _, _, _)
\* a traversal that stops one level early
TraverseShallow(adjacency, visited, queue, max_depth) ==
    IF queue = <<>> THEN visited
    ELSE LET current == Head(queue)[1]
             depth == Head(queue)[2]
             deps == SetToSeq(GetOrEmpty(adjacency, current))
         IN  IF current \in visited \/ depth >= max_depth
             THEN TraverseShallow(adjacency, visited, Tail(queue), max_depth)
             ELSE TraverseShallow(adjacency, visited \cup {current},
                           Tail(queue) \o [i \in DOMAIN deps |-> <<deps[i], depth + 1>>],
                           max_depth)

\* a get_dependents that stops one level early
get_dependents_Shallow(g, file_path, max_depth) ==
    TraverseShallow(g.reverse, {}, <<<<file_path, 0>>>>, max_depth) \ {file_path}

\* DependencyGraph.get_dependents
get_dependents(g, file_path, max_depth) ==
    Traverse(g.reverse, {}, <<<<file_path, 0>>>>, max_depth) \ {file_path}

\* DependencyGraph.get_dependencies
get_dependencies(g, file_path, max_depth) ==
    Traverse(g.forward, {}, <<<<file_path, 0>>>>, max_depth) \ {file_path}

\* DependencyGraph.dependency_depth
dependency_depth(g, file_path) ==
    Cardinality(get_dependents(g, file_path, DefaultMaxDepth))

(***************************************************************************)
(* The diff texts the parser is run on                                     *)
(***************************************************************************)

MaxLines == 4
MaxBody == 3

GeneralLines ==
    { DiffHeaderLine("a.py", "a.py"), DiffHeaderLine("a.py", "b.py"),
      NewFileLine, HunkHeaderLine(1, 2, 1, 3), HunkHeaderLine(7, NoCount, 5, NoCount),
      <<"+", "x">>, <<"-", "x">>, <<>> }

\* lines of a hunk body: an added "x", an added "++", an added empty line,
\* a removed "x", a removed "--", a context line "x"
BodyLines ==
    { <<"+", "x">>, <<"+", "+", "+">>, <<"+">>,
      <<"-", "x">>, <<"-", "-", "-">>, <<" ", "x">> }

HunkStarts == { <<1, 1>>, <<10, 12>> }

\* the number of lines of a body that do not begin with c
CountNot(body, c) == Cardinality({i \in DOMAIN body : body[i][1] # c})

\* the text of one file section with one hunk whose header counts match its body
HunkText(ab, body) ==
    << DiffHeaderLine("a.py", "a.py"),
       HunkHeaderLine(ab[1], CountNot(body, "+"), ab[2], CountNot(body, "-")) >> \o body

DiffTexts ==
    (SeqsUpTo(GeneralLines, MaxLines) \ {<<>>})
        \cup {HunkText(ab, body) : ab \in HunkStarts,
                                   body \in SeqsUpTo(BodyLines, MaxBody) \ {<<>>}}

InitRest ==
    /\ decisions = <<>>
    /\ repo = <<>>
    /\ cache = <<>>
    /\ graph = DependencyGraph

InitDiff ==
    /\ pc = "scan"
    /\ call \in {[op |-> "parse_unified_diff", diff_text |-> t] : t \in DiffTexts}
    /\ ret = NoRet
    /\ pos = 1
    /\ scan = ScanInit
    /\ InitRest

\* the loop body of parse_unified_diff on the next line
ScanLine ==
    /\ pc = "scan"
    /\ pos <= Len(call.diff_text)
    /\ scan' = ParseLine(scan, call.diff_text[pos])
    /\ pos' = pos + 1
    /\ UNCHANGED <<pc, call, ret, decisions, repo, cache, graph>>

\* the end of the loop: the last hunk and file are flushed and files returned
EndOfInput ==
    /\ pc = "scan"
    /\ pos > Len(call.diff_text)
    /\ ret' = FlushFile(scan)
    /\ pc' = "returned"
    /\ UNCHANGED <<call, pos, scan, decisions, repo, cache, graph>>

NextDiff == ScanLine \/ EndOfInput

SpecDiff == InitDiff /\ [][NextDiff]_vars

(***************************************************************************)
(* Claims about the diff parser                                            *)
(***************************************************************************)

ParseReturned == pc = "returned" /\ call.op = "parse_unified_diff"

IsBodyLine(l) == Len(l) >= 1 /\ l[1] \in {"+", "-", " "}

\* the text is one file header, one hunk header "@@ -a,m +b,n @@" and a body
\* of lines beginning with '+', '-' or a space, n of them not beginning with '-'
IsOneHunkText(t) ==
    /\ Len(t) >= 3
    /\ DIFF_HEADER_match(t[1])
    /\ HUNK_HEADER_match(t[2])
    /\ \A i \in 3..Len(t) : IsBodyLine(t[i])
    /\ t[2][5] = Cardinality({i \in 3..Len(t) : t[i][1] # "-"})

\* the (line number, text) pairs of the body lines beginning with c, numbered
\* from start by the earlier body lines that begin with c or a space
NumberedLines(body, c, start) ==
    LET idx == SelectSeq([i \in DOMAIN body |-> i], LAMBDA i : body[i][1] = c)
        before(i) == Cardinality({j \in 1..(i - 1) : body[j][1] \in {c, " "}})
    IN  [k \in DOMAIN idx |-> <<start + before(idx[k]), Tail(body[idx[k]])>>]

HunkNumberedAsClaimed(t, files) ==
    LET body == SubSeq(t, 3, Len(t))
        a == t[2][2]
        b == t[2][4]
        n == t[2][5]
    IN  /\ Len(files) = 1
        /\ Len(files[1].hunks) = 1
        /\ LET h == files[1].hunks[1]
               nums == {h.added_lines[i][1] : i \in DOMAIN h.added_lines}
           IN  /\ h.added_lines = NumberedLines(body, "+", b)
               /\ h.removed_lines = NumberedLines(body, "-", a)
               /\ nums # {} => Max(nums) - Min(nums) + 1 <= n

\* C9: in a hunk "@@ -a,m +b,n @@" whose body lines all begin with '+', '-'
\* or a space, n of them not with '-', every added line is recorded with
\* new-file number b + (earlier '+' or context lines), every removed line with
\* old-file number a + (earlier '-' or context lines), and the added numbers
\* span at most n lines, whatever the text of the body lines is.
C9_LineNumbering ==
    (ParseReturned /\ IsOneHunkText(call.diff_text))
        => HunkNumberedAsClaimed(call.diff_text, ret)

HeaderIdx(t) == {i \in DOMAIN t : DIFF_HEADER_match(t[i])}
KthHeader(t, k) ==
    CHOOSE i \in HeaderIdx(t) : Cardinality({j \in HeaderIdx(t) : j < i}) = k - 1
SectionEnd(t, i) == Min({j \in HeaderIdx(t) : j > i} \cup {Len(t) + 1})
\* the hunk header lines of the section opened by line i, in order
SectionHunkHeaders(t, i) ==
    SelectSeq([j \in DOMAIN t |-> j],
              LAMBDA j : i < j /\ j < SectionEnd(t, i) /\ HUNK_HEADER_match(t[j]))

\* C10: the result has one FileDiff per "diff --git a/X b/Y" line, in input
\* order (none for an input without header, lines before the first header
\* ignored), with path Y and old_path X when X differs from Y and None
\* otherwise; a section has one hunk per hunk header line in it, in order
\* (zero hunks when it has none), the last hunk and file included.
C10_FileSections ==
    ParseReturned =>
        LET t == call.diff_text IN
        /\ Len(ret) = Cardinality(HeaderIdx(t))
        /\ \A k \in DOMAIN ret :
            LET i == KthHeader(t, k)
                hh == SectionHunkHeaders(t, i)
            IN  /\ ret[k].path = t[i][4]
                /\ ret[k].old_path = (IF t[i][2] # t[i][4] THEN t[i][2] ELSE None)
                /\ Len(ret[k].hunks) = Len(hh)
                /\ \A j \in DOMAIN hh :
                    /\ ret[k].hunks[j].old_start = t[hh[j]][2]
                    /\ ret[k].hunks[j].new_start = t[hh[j]][4]

\* a renamed file with a hunk, flushed by a second header whose own section
\* has no hunk and is flushed at end of input
C10_Witness ==
    /\ ParseReturned
    /\ Len(ret) = 2
    /\ ret[1].old_path # None
    /\ Len(ret[1].hunks) = 1
    /\ ret[1].hunks[1].added_lines # <<>>
    /\ ret[2].old_path = None
    /\ ret[2].hunks = <<>>

\* the numbering does hold when no body line begins with "+++" or "---"
C9_HoldsWithoutTripleSigns ==
    (/\ ParseReturned
     /\ IsOneHunkText(call.diff_text)
     /\ \A i \in 3..Len(call.diff_text) :
            /\ ~startswith(call.diff_text[i], <<"+", "+", "+">>)
            /\ ~startswith(call.diff_text[i], <<"-", "-", "-">>))
        => HunkNumberedAsClaimed(call.diff_text, ret)

(***************************************************************************)
(* Calls of the pure functions: a call is made from the idle state with    *)
(* arguments drawn from bounded sets, its result is held until Return      *)
(***************************************************************************)

InitIdle ==
    /\ pc = "idle"
    /\ call = NoCall
    /\ ret = NoRet
    /\ pos = 0
    /\ scan = ScanInit
    /\ InitRest

\* the caller drops the result
Return ==
    /\ pc = "returned"
    /\ pc' = "idle"
    /\ call' = NoCall
    /\ ret' = NoRet
    /\ UNCHANGED <<pos, scan, decisions, repo, cache, graph>>

MaxSymbols == 2
MaxRanges == 2

MapLineNumbers == {1, 2, 3}

MapSymbols ==
    {Symbol("F", "a.py", p[1], p[2], {}) :
        p \in {q \in MapLineNumbers \X MapLineNumbers : q[1] <= q[2]}}
        \cup {Symbol("G", "a.py", 2, 2, {})}

MapRanges == MapLineNumbers \X MapLineNumbers

MapCall ==
    /\ pc = "idle"
    /\ \E symbols \in SeqsUpTo(MapSymbols, MaxSymbols),
          modified_ranges \in SeqsUpTo(MapRanges, MaxRanges) :
        /\ call' = [op |-> "map_diff_to_symbols", symbols |-> symbols,
                    modified_ranges |-> modified_ranges]
        /\ ret' = map_diff_to_symbols(symbols, modified_ranges)
    /\ pc' = "returned"
    /\ UNCHANGED <<pos, scan, decisions, repo, cache, graph>>

NextMap == MapCall \/ Return

SpecMap == InitIdle /\ [][NextMap]_vars

MapReturned == pc = "returned" /\ call.op = "map_diff_to_symbols"

\* C2: the output of map_diff_to_symbols(S, R) is the sub-list of S, in S's
\* order, of the elements s with s.start_line <= r.end and r.start <= s.end_line
\* for some r in R; each element of S is in it at most once however many
\* ranges it overlaps.
C2_MapperOutput ==
    MapReturned =>
        ret = SelectSeq(call.symbols,
                        LAMBDA s : \E r \in Range(call.modified_ranges) :
                                      s.start_line <= r[2] /\ r[1] <= s.end_line)

\* a symbol overlapped by two ranges (one of them touching only its last
\* line) is kept once, and a symbol no range touches is dropped
C2_Witness ==
    /\ MapReturned
    /\ call.symbols = <<Symbol("F", "a.py", 1, 2, {}), Symbol("F", "a.py", 3, 3, {})>>
    /\ call.modified_ranges = <<<<1, 1>>, <<2, 2>>>>
    /\ ret = <<Symbol("F", "a.py", 1, 2, {})>>

(***************************************************************************)
(* Calls of classify_conflicts                                             *)
(***************************************************************************)

MaxChanged == 2

TargetChanged ==
    { ChangedSymbol(Symbol("F", "a.py", 1, 2, {}), "modified_body", <<1, 2>>),
      ChangedSymbol(Symbol("F", "a.py", 1, 2, {}), "modified_signature", <<1, 2>>),
      ChangedSymbol(Symbol("G", "a.py", 1, 2, {}), "modified_signature", <<1, 2>>),
      ChangedSymbol(Symbol("F", "b.py", 1, 2, {}), "modified_body", <<1, 2>>),
      ChangedSymbol(Symbol("G", "b.py", 1, 2, {}), "modified_signature", <<1, 2>>) }

OtherChanged ==
    { ChangedSymbol(Symbol("F", "a.py", 1, 2, {}), "modified_body", <<1, 2>>),
      ChangedSymbol(Symbol("G", "a.py", 1, 2, {"F"}), "modified_body", <<1, 2>>),
      ChangedSymbol(Symbol("F", "b.py", 1, 2, {"G"}), "modified_body", <<1, 2>>),
      ChangedSymbol(Symbol("G", "b.py", 1, 2, {}), "modified_body", <<1, 2>>),
      ChangedSymbol(Symbol("F", "a.py", 1, 2, {"F", "G"}), "modified_signature", <<1, 2>>) }

\* the two range lists of an overlap: sharing one endpoint line, disjoint,
\* intersecting in a later range only, one side without ranges
OverlapLines ==
    { << <<<<1, 2>>>>, <<<<2, 3>>>> >>,
      << <<<<1, 1>>>>, <<<<3, 3>>>> >>,
      << <<<<1, 1>>, <<4, 5>>>>, <<<<5, 6>>>> >>,
      << <<>>, <<<<1, 2>>>> >> }

\* overlap lists as compute_file_overlaps builds them: one overlap per path
OverlapLists ==
    LET ov(path, ab) == FileOverlap(path, 1, 2, ab[1], ab[2])
    IN  {<<>>}
            \cup {<<ov(path, ab)>> : path \in {"a.py", "b.py"}, ab \in OverlapLines}
            \cup {<<ov("a.py", ab), ov("b.py", cd)>> : ab \in OverlapLines, cd \in OverlapLines}

\* one call of classify_conflicts with arguments from the given sets
ClassifyCallOn(TargetLists, OtherLists, Overlaps) ==
    /\ pc = "idle"
    /\ \E ts \in TargetLists, os \in OtherLists, file_overlaps \in Overlaps :
        LET target_pr == PRInfo(1, <<>>, ts, "unknown")
            other_pr == PRInfo(2, <<>>, os, "unknown")
        IN  /\ call' = [op |-> "classify_conflicts", target_pr |-> target_pr,
                        other_pr |-> other_pr, file_overlaps |-> file_overlaps]
            /\ ret' = classify_conflicts(target_pr, other_pr, file_overlaps)
    /\ pc' = "returned"
    /\ UNCHANGED <<pos, scan, decisions, repo, cache, graph>>

ClassifyCall ==
    ClassifyCallOn(SeqsUpTo(TargetChanged, MaxChanged),
                   SeqsUpTo(OtherChanged, MaxChanged), OverlapLists)

NextClassify == ClassifyCall \/ Return

SpecClassify == InitIdle /\ [][NextClassify]_vars

ClassifyReturned == pc = "returned" /\ call.op = "classify_conflicts"

\* some range of one list and some range of the other share a line
LinesIntersect(ov) ==
    \E ra \in Range(ov.pr_a_lines), rb \in Range(ov.pr_b_lines) :
        ra[1] <= rb[2] /\ rb[1] <= ra[2]

HasEntity(pr, path, name) ==
    \E cs \in Range(pr.changed_symbols) :
        cs.symbol.name = name /\ cs.symbol.file_path = path

\* the entity names both change sets changed in the file
CommonNames(pr_a, pr_b, path) ==
    {n \in symbol_names(pr_a) : HasEntity(pr_a, path, n) /\ HasEntity(pr_b, path, n)}

\* the positions of the conflicts of one type reported for a file
ConflictsOf(conflicts, type, path) ==
    {k \in DOMAIN conflicts :
        conflicts[k].conflict_type = type /\ conflicts[k].file_path = path}

\* C3: for every FileOverlap whose range lists intersect (closed intervals):
\* if the two change sets have changed entities of a common name in that file,
\* one HARD conflict of severity CRITICAL per common name, naming it, and no
\* other HARD conflict for the file; otherwise exactly one HARD conflict of
\* severity WARNING without symbol name. Same names in another file do not count.
C3_HardRule ==
    ClassifyReturned =>
        \A ov \in Range(call.file_overlaps) :
            LinesIntersect(ov) =>
                LET common == CommonNames(call.target_pr, call.other_pr, ov.file_path)
                    hard == ConflictsOf(ret, "hard", ov.file_path)
                IN  IF common # {}
                    THEN /\ Cardinality(hard) = Cardinality(common)
                         /\ \A n \in common : \E k \in hard : ret[k].symbol_name = n
                         /\ \A k \in hard : ret[k].severity = "critical"
                    ELSE /\ Cardinality(hard) = 1
                         /\ \A k \in hard :
                                ret[k].severity = "warning" /\ ret[k].symbol_name = None

\* ranges sharing only an endpoint line give a CRITICAL hard conflict for the
\* common entity F of a.py, while b.py, where the two change F and G, gets the
\* file-level WARNING
C3_Witness ==
    /\ ClassifyReturned
    /\ Len(call.file_overlaps) = 2
    /\ call.file_overlaps[1].pr_a_lines = <<<<1, 2>>>>
    /\ call.file_overlaps[1].pr_b_lines = <<<<2, 3>>>>
    /\ LinesIntersect(call.file_overlaps[2])
    /\ CommonNames(call.target_pr, call.other_pr, "a.py") = {"F"}
    /\ CommonNames(call.target_pr, call.other_pr, "b.py") = {}
    /\ HasEntity(call.target_pr, "b.py", "F")
    /\ HasEntity(call.other_pr, "b.py", "G")
    /\ \E k \in DOMAIN ret : ret[k] = Conflict("hard", "critical", 1, 2, "a.py", "F")
    /\ \E k \in DOMAIN ret : ret[k] = Conflict("hard", "warning", 1, 2, "b.py", None)

\* C4: for every FileOverlap whose range lists do not intersect, one BEHAVIORAL
\* conflict of severity WARNING per entity name both change sets changed in
\* that file, no other BEHAVIORAL and no HARD conflict for the file; for a
\* FileOverlap whose ranges intersect, no BEHAVIORAL conflict for the file.
C4_BehavioralRule ==
    ClassifyReturned =>
        \A ov \in Range(call.file_overlaps) :
            LET common == CommonNames(call.target_pr, call.other_pr, ov.file_path)
                behavioral == ConflictsOf(ret, "behavioral", ov.file_path)
            IN  IF LinesIntersect(ov)
                THEN behavioral = {}
                ELSE /\ Cardinality(behavioral) = Cardinality(common)
                     /\ \A n \in common : \E k \in behavioral : ret[k].symbol_name = n
                     /\ \A k \in behavioral : ret[k].severity = "warning"
                     /\ ConflictsOf(ret, "hard", ov.file_path) = {}

\* disjoint ranges in a.py where both change F, while the other change set
\* changes F in b.py only: one behavioral conflict, for a.py
C4_Witness ==
    /\ ClassifyReturned
    /\ Len(call.file_overlaps) = 2
    /\ ~LinesIntersect(call.file_overlaps[1])
    /\ ~LinesIntersect(call.file_overlaps[2])
    /\ CommonNames(call.target_pr, call.other_pr, "a.py") = {"F"}
    /\ HasEntity(call.target_pr, "b.py", "F")
    /\ ~HasEntity(call.other_pr, "b.py", "F")
    /\ HasEntity(call.other_pr, "b.py", "G")
    /\ ConflictsOf(ret, "behavioral", "a.py") # {}
    /\ ConflictsOf(ret, "behavioral", "b.py") = {}

\* the pairs (s, t): s a signature-modified entity of the source change set,
\* t an entity of the target change set whose dependencies contain s's name
InterfacePairs(source, target) ==
    {p \in (DOMAIN source.changed_symbols) \X (DOMAIN target.changed_symbols) :
        /\ source.changed_symbols[p[1]].change_type = "modified_signature"
        /\ source.changed_symbols[p[1]].symbol.name
                \in target.changed_symbols[p[2]].symbol.dependencies}

\* C5: the output has exactly one INTERFACE conflict, of severity CRITICAL and
\* naming s, for each pair (s, t) of a signature-modified entity s of the
\* source change set and an entity t of the target change set that depends on
\* s's name, and no other INTERFACE conflict, whatever the overlap list is.
C5_InterfaceRule ==
    ClassifyReturned =>
        LET pairs == InterfacePairs(call.target_pr, call.other_pr)
            iface == {k \in DOMAIN ret : ret[k].conflict_type = "interface"}
            src(p) == call.target_pr.changed_symbols[p[1]].symbol
        IN  /\ Cardinality(iface) = Cardinality(pairs)
            /\ \A k \in iface : ret[k].severity = "critical"
            /\ \A p \in pairs :
                Cardinality({k \in iface : /\ ret[k].symbol_name = src(p).name
                                           /\ ret[k].file_path = src(p).file_path})
                    = Cardinality({q \in pairs : /\ src(q).name = src(p).name
                                                 /\ src(q).file_path = src(p).file_path})

\* with no file overlap at all, a changed signature with two dependent
\* entities in the other change set gives two interface conflicts
C5_Witness ==
    /\ ClassifyReturned
    /\ call.file_overlaps = <<>>
    /\ \E p, q \in InterfacePairs(call.target_pr, call.other_pr) :
            p[1] = q[1] /\ p[2] # q[2]
    /\ \E k \in DOMAIN ret : ret[k].conflict_type = "interface"

(***************************************************************************)
(* The producers of conflicts side by side: the decisions log is filled by *)
(* record_merge and read by detect_regressions, next to calls of           *)
(* classify_conflicts and enforce_guardrails                               *)
(***************************************************************************)

MaxEntries == 2
BulkSize == 50

\* merged change sets with one decision each
SingleEntries ==
    { DecisionsEntry(40, 1, <<Decision("removal", "F", "a.py")>>),
      DecisionsEntry(41, 4, <<Decision("removal", "G", None)>>),
      DecisionsEntry(40, 1, <<Decision("migration", "M", "a.py")>>),
      DecisionsEntry(41, 4, <<Decision("migration", "F", None)>>),
      DecisionsEntry(40, 1, <<Decision("addition", "F", "a.py")>>),
      DecisionsEntry(41, 4, <<Decision("refactor", "G", "b.py")>>),
      DecisionsEntry(40, 1, <<Decision("pattern_change", "F", "a.py")>>) }

\* a merged change set that records many decisions at once
BulkEntry ==
    DecisionsEntry(42, 3, [i \in 1..BulkSize |-> Decision("addition", "N", "c.py")])

Entries == SingleEntries \cup {BulkEntry}

\* the number of entries recorded so far, counted from their rows
EntriesRecorded(rows) ==
    Cardinality({i \in DOMAIN rows : rows[i].pr_number # BulkEntry.pr_number})
        + (Cardinality({i \in DOMAIN rows : rows[i].pr_number = BulkEntry.pr_number})
            \div BulkSize)

RecordMerge ==
    /\ pc = "idle"
    /\ EntriesRecorded(decisions) < MaxEntries
    /\ \E entry \in Entries : decisions' = record_merge(decisions, entry)
    /\ UNCHANGED <<pc, call, ret, pos, scan, repo, cache, graph>>

RegressionPRs ==
    LET cs(name) == ChangedSymbol(Symbol(name, "a.py", 1, 10, {}), "modified_body", <<1, 10>>)
        cf(path) == ChangedFile(path, <<>>, 0, 0)
    IN  {PRInfo(50, files, symbols, "unknown") :
            files \in {<<>>, <<cf("a.py")>>, <<cf("a.py"), cf("b.py")>>},
            symbols \in {<<>>, <<cs("F")>>, <<cs("F"), cs("G")>>}}

DetectRegressionsCall ==
    /\ pc = "idle"
    /\ \E pr \in RegressionPRs :
        /\ call' = [op |-> "detect_regressions", pr |-> pr]
        /\ ret' = detect_regressions(pr, decisions)
    /\ pc' = "returned"
    /\ UNCHANGED <<pos, scan, decisions, repo, cache, graph>>

GuardrailRules ==
    {GuardrailRule(when, max_files, max_lines) :
        when \in {None, "ai_authored"}, max_files \in {NoLimit, 1}, max_lines \in {NoLimit, 3}}

GuardrailRuleLists ==
    {<<>>} \cup {<<r>> : r \in GuardrailRules}
           \cup {<<GuardrailRule("ai_authored", 1, 3), r>> : r \in GuardrailRules}

GuardrailPRs ==
    {PRInfo(50, files, <<>>, attribution) :
        files \in {<<ChangedFile("a.py", <<>>, 1, 1)>>,
                   <<ChangedFile("a.py", <<>>, 2, 1), ChangedFile("b.py", <<>>, 1, 0)>>},
        attribution \in {"human", "ai_confirmed", "ai_suspected", "unknown"}}

EnforceGuardrailsCall ==
    /\ pc = "idle"
    /\ \E pr \in GuardrailPRs, rules \in GuardrailRuleLists :
        /\ call' = [op |-> "enforce_guardrails", pr |-> pr, rules |-> rules]
        /\ ret' = enforce_guardrails(pr, rules)
    /\ pc' = "returned"
    /\ UNCHANGED <<pos, scan, decisions, repo, cache, graph>>

\* a few calls of classify_conflicts in which each of its rules fires
ClassifySomeCall ==
    ClassifyCallOn(
        { <<ChangedSymbol(Symbol("F", "a.py", 1, 2, {}), "modified_signature", <<1, 2>>),
            ChangedSymbol(Symbol("F", "b.py", 1, 2, {}), "modified_body", <<1, 2>>)>>,
          <<ChangedSymbol(Symbol("G", "a.py", 1, 2, {}), "modified_body", <<1, 2>>)>> },
        { <<ChangedSymbol(Symbol("F", "a.py", 1, 2, {}), "modified_body", <<1, 2>>),
            ChangedSymbol(Symbol("G", "b.py", 1, 2, {"F"}), "modified_body", <<1, 2>>)>>,
          <<>> },
        {l \in OverlapLists : Len(l) = 2})

NextProducers ==
    \/ RecordMerge
    \/ DetectRegressionsCall
    \/ EnforceGuardrailsCall
    \/ ClassifySomeCall
    \/ Return

SpecProducers == InitIdle /\ [][NextProducers]_vars

RegressionsReturned == pc = "returned" /\ call.op = "detect_regressions"

\* a recorded decision the PR of the call runs against: a REMOVAL of an entity
\* the PR changes, or a MIGRATION of a file the PR changes
RunsAgainst(row, pr) ==
    \/ row.decision_type = "removal" /\ row.entity \in symbol_names(pr)
    \/ row.decision_type = "migration" /\ row.file_path \in file_paths(pr)

\* the conflict a recorded decision is reported as
RegressionOf(row, pr) ==
    Conflict("regression", "warning", pr.number, row.pr_number,
             IF row.file_path = None THEN "<unknown>" ELSE row.file_path, row.entity)

\* the result reports each of the given rows once and nothing else
ReportsExactly(rows, pr, result) ==
    LET hits == {i \in DOMAIN rows : RunsAgainst(rows[i], pr)}
    IN  /\ Len(result) = Cardinality(hits)
        /\ \A i \in hits :
            Cardinality({k \in DOMAIN result : result[k] = RegressionOf(rows[i], pr)})
                = Cardinality({j \in hits :
                        RegressionOf(rows[j], pr) = RegressionOf(rows[i], pr)})

ProducerReturned ==
    /\ pc = "returned"
    /\ call.op \in {"classify_conflicts", "detect_regressions", "enforce_guardrails"}

\* C8: in every conflict that classify_conflicts, detect_regressions or
\* enforce_guardrails produces, the severity is fixed by the type: INTERFACE
\* is CRITICAL, BEHAVIORAL is WARNING, REGRESSION is WARNING, HARD is CRITICAL
\* exactly when it names an entity and WARNING exactly when it names none;
\* no such conflict is INFO
C8_SeverityByType ==
    ProducerReturned =>
        \A c \in Range(ret) :
            /\ c.conflict_type \in {"hard", "behavioral", "interface", "regression"}
            /\ c.conflict_type = "interface" => c.severity = "critical"
            /\ c.conflict_type = "behavioral" => c.severity = "warning"
            /\ c.conflict_type = "regression" => c.severity = "warning"
            /\ c.conflict_type = "hard" =>
                /\ c.severity = "critical" <=> c.symbol_name # None
                /\ c.severity = "warning" <=> c.symbol_name = None
            /\ c.severity # "info"

\* one call of classify_conflicts returns an INTERFACE conflict, a HARD
\* conflict that names an entity and a HARD conflict that names none
C8_Witness ==
    /\ ProducerReturned
    /\ call.op = "classify_conflicts"
    /\ \E c \in Range(ret) : c.conflict_type = "interface" /\ c.severity = "critical"
    /\ \E c \in Range(ret) : c.conflict_type = "hard" /\ c.symbol_name # None
    /\ \E c \in Range(ret) : c.conflict_type = "hard" /\ c.symbol_name = None

(***************************************************************************)
(* core/risk_scorer.py.  A factor is kept as a whole number of             *)
(* ScoreUnit-ths of a point, so that the halvings of _score_conflicts stay *)
(* exact; churn_score and pattern_deviation_score are given in             *)
(* ScoreUnit-ths of 1.  The weights are applied as hundredths, which makes *)
(* the total a number of (100 * ScoreUnit)-ths of a point.                 *)
(***************************************************************************)

ScoreUnit == 1024

\* 100 points in the unit of the total
FullScore == 100 * 100 * ScoreUnit

\* severity_scores
SeverityScore(severity) ==
    IF severity = "critical" THEN 100 ELSE IF severity = "warning" THEN 50 ELSE 15

RECURSIVE Halved(_, _)
\* x * 0.5 ** i
Halved(x, i) == IF i = 0 THEN x ELSE Halved(x \div 2, i - 1)

RECURSIVE DiminishingSum(_, _)
\* scores[i] * 0.5 ** i summed from position i on
DiminishingSum(scores, i) ==
    IF i > Len(scores) THEN 0
    ELSE Halved(scores[i] * ScoreUnit, i - 1) + DiminishingSum(scores, i + 1)

\* a scoring that takes the conflicts in the order given
score_conflicts_Unsorted(conflicts) ==
    IF conflicts = <<>> THEN 0
    ELSE Min({100 * ScoreUnit,
              DiminishingSum([i \in DOMAIN conflicts |->
                                SeverityScore(conflicts[i].severity)], 1)})

\* a scoring without the clamp to 100
score_conflicts_Unclamped(conflicts) ==
    LET count(sev) == Cardinality({i \in DOMAIN conflicts : conflicts[i].severity = sev})
        scores == [i \in 1..count("critical") |-> SeverityScore("critical")]
                    \o [i \in 1..count("warning") |-> SeverityScore("warning")]
                    \o [i \in 1..count("info") |-> SeverityScore("info")]
    IN  IF conflicts = <<>> THEN 0 ELSE DiminishingSum(scores, 1)

\* _score_conflicts
score_conflicts(conflicts) ==
    LET count(sev) == Cardinality({i \in DOMAIN conflicts : conflicts[i].severity = sev})
        \* sorted(..., reverse=True)
        scores == [i \in 1..count("critical") |-> SeverityScore("critical")]
                    \o [i \in 1..count("warning") |-> SeverityScore("warning")]
                    \o [i \in 1..count("info") |-> SeverityScore("info")]
    IN  IF conflicts = <<>> THEN 0
        ELSE Min({100 * ScoreUnit, DiminishingSum(scores, 1)})

\* the weighted sum of the five factors (depth_count: the dependency_depth
\* argument)
WeightedSum(pr, conflicts, depth_count, churn_score, pattern_deviation_score) ==
    LET blast_score == Min({100, depth_count * 15}) * ScoreUnit
        ai_score == IF pr.ai_attribution = "ai_confirmed" THEN 40
                    ELSE IF pr.ai_attribution = "ai_suspected" THEN 20
                    ELSE 0
    IN  30 * score_conflicts(conflicts)
            + 25 * blast_score
            + 20 * (pattern_deviation_score * 100)
            + 15 * (churn_score * 100)
            + 10 * (ai_score * ScoreUnit)

\* a score that is not clamped
compute_risk_score_Unclamped(pr, conflicts, depth_count, churn_score, pattern_deviation_score) ==
    WeightedSum(pr, conflicts, depth_count, churn_score, pattern_deviation_score)

\* compute_risk_score: the total (config is not read)
compute_risk_score(pr, conflicts, depth_count, churn_score, pattern_deviation_score) ==
    Min({FullScore,
         Max({0, WeightedSum(pr, conflicts, depth_count, churn_score,
                             pattern_deviation_score)})})

(***************************************************************************)
(* integrations/github_client.py and analysis/symbol_index.py, as          *)
(* core/engine.py uses them.  repo.prs lists the open PRs in the order     *)
(* get_pulls(sort="updated", direction="desc") yields them, each with the  *)
(* files get_pr_files reports; repo.contents gives for a path the content  *)
(* of the file on the base branch, <<>> where there is none.  A content is *)
(* given by the symbols that extract_symbols finds in it.                  *)
(***************************************************************************)

\* MergeGuardConfig.max_open_prs
max_open_prs == 30

\* the base branch of every PR of the repository
base_branch == "main"

\* a patch the API did not deliver
NoPatch == <<>>

\* "not changed_file.patch": no patch, or the empty text
PatchIsFalsy(patch) == patch = NoPatch \/ patch = <<<<>>>>

\* GitHubClient._pr_to_info
pr_to_info(number) == PRInfo(number, <<>>, <<>>, "unknown")

\* GitHubClient.get_open_prs
get_open_prs(max_count) ==
    [i \in 1..Min({Len(repo.prs), max_count}) |-> pr_to_info(repo.prs[i].number)]

\* GitHubClient.get_pr
get_pr(number) == pr_to_info(number)

\* GitHubClient.get_pr_files
get_pr_files(number) ==
    (CHOOSE p \in Range(repo.prs) : p.number = number).files

\* GitHubClient.get_file_content
get_file_content(path, ref) == repo.contents[path]

\* extract_symbols, on a content given by its symbols
extract_symbols(source_code, file_path) == source_code[1]

\* SymbolIndex.get_symbols: the list returned and the cache afterwards
get_symbols(index, file_path, source_code, ref) ==
    LET cache_key == <<file_path, ref>>
    IN  IF cache_key \in DOMAIN index
        THEN [symbols |-> index[cache_key], cache |-> index]
        ELSE LET symbols == extract_symbols(source_code, file_path)
             IN  [symbols |-> symbols,
                  cache |-> [k \in DOMAIN index \cup {cache_key} |->
                                IF k = cache_key THEN symbols ELSE index[k]]]

\* SymbolIndex.find_symbol: the first cached symbol of the name, if any
find_symbol(index, file_path, symbol_name, ref) ==
    LET cache_key == <<file_path, ref>>
        symbols == IF cache_key \in DOMAIN index THEN index[cache_key] ELSE <<>>
        named == {i \in DOMAIN symbols : symbols[i].name = symbol_name}
    IN  IF named = {} THEN <<>> ELSE <<symbols[Min(named)]>>

\* SymbolIndex.find_callers; items_order is the order in which the dict
\* yields its keys (the order of insertion, which the cache does not keep)
find_callers(index, symbol_name, ref, items_order) ==
    LET references(sym) == symbol_name \in sym.dependencies
        callers(cache_key) ==
            IF cache_key[2] # ref THEN <<>> ELSE SelectSeq(index[cache_key], references)
    IN  Flatten([i \in DOMAIN items_order |-> callers(items_order[i])])

\* SymbolIndex.clear
clear(index) == <<>>

\* a clear_file that drops the file under every ref
clear_file_EveryRef(index, file_path, ref) ==
    [k \in {key \in DOMAIN index : key[1] # file_path} |-> index[k]]

\* SymbolIndex.clear_file
clear_file(index, file_path, ref) ==
    [k \in DOMAIN index \ {<<file_path, ref>>} |-> index[k]]

(***************************************************************************)
(* core/engine.py and compute_file_overlaps of core/conflict.py            *)
(***************************************************************************)

\* the lines "--- a/X" and "+++ b/X"
OldNameLine(X) == <<"-", "-", "-", " a/", X>>
NewNameLine(X) == <<"+", "+", "+", " b/", X>>

\* an enrichment that flags every affected symbol as a signature change
enrich_file_SignatureChange(st, changed_file) ==
    IF PatchIsFalsy(changed_file.patch) THEN st
    ELSE
    LET diff_text == <<DiffHeaderLine(changed_file.path, changed_file.path),
                       OldNameLine(changed_file.path),
                       NewNameLine(changed_file.path)>> \o changed_file.patch
        file_diffs == parse_unified_diff(diff_text)
        modified_ranges == all_modified_line_ranges(file_diffs[1])
        content == get_file_content(changed_file.path, base_branch)
        got == get_symbols(st.cache, changed_file.path, content, base_branch)
        affected == map_diff_to_symbols(got.symbols, modified_ranges)
    IN  IF file_diffs = <<>> THEN st
        ELSE IF modified_ranges = <<>> THEN st
        ELSE IF content = <<>> THEN st
        ELSE [pr |-> [st.pr EXCEPT !.changed_symbols = @ \o
                        [i \in DOMAIN affected |->
                            ChangedSymbol(affected[i], "modified_signature", modified_ranges[1])]],
              cache |-> got.cache]

\* the body of _enrich_pr's loop for one changed file; st is the PR and the
\* symbol cache before, the result the PR and the cache after
enrich_file(st, changed_file) ==
    IF PatchIsFalsy(changed_file.patch) THEN st
    ELSE
    LET diff_text == <<DiffHeaderLine(changed_file.path, changed_file.path),
                       OldNameLine(changed_file.path),
                       NewNameLine(changed_file.path)>> \o changed_file.patch
        file_diffs == parse_unified_diff(diff_text)
        modified_ranges == all_modified_line_ranges(file_diffs[1])
        content == get_file_content(changed_file.path, base_branch)
        got == get_symbols(st.cache, changed_file.path, content, base_branch)
        affected == map_diff_to_symbols(got.symbols, modified_ranges)
    IN  IF file_diffs = <<>> THEN st
        ELSE IF modified_ranges = <<>> THEN st
        ELSE IF content = <<>> THEN st
        ELSE [pr |-> [st.pr EXCEPT !.changed_symbols = @ \o
                        [i \in DOMAIN affected |->
                            ChangedSymbol(affected[i], "modified_body", modified_ranges[1])]],
              cache |-> got.cache]

RECURSIVE EnrichFiles(_, _)
EnrichFiles(st, changed_files) ==
    IF changed_files = <<>> THEN st
    ELSE EnrichFiles(enrich_file(st, Head(changed_files)), Tail(changed_files))

\* MergeGuardEngine._enrich_pr
enrich_pr(pr, index) == EnrichFiles([pr |-> pr, cache |-> index], pr.changed_files)

RECURSIVE EnrichOthers(_, _, _)
\* the loop of analyze_pr's step 2 over other_prs: the PRs and the cache after
EnrichOthers(other_prs, pr_number, index) ==
    IF other_prs = <<>> THEN [prs |-> <<>>, cache |-> index]
    ELSE LET other_pr == Head(other_prs)
             st == IF other_pr.number = pr_number
                   THEN [pr |-> other_pr, cache |-> index]
                   ELSE enrich_pr([other_pr EXCEPT
                                    !.changed_files = get_pr_files(other_pr.number)],
                                  index)
             rest == EnrichOthers(Tail(other_prs), pr_number, st.cache)
         IN  [prs |-> <<st.pr>> \o rest.prs, cache |-> rest.cache]

\* _get_modified_ranges
get_modified_ranges(pr, file_path) ==
    LET own == SelectSeq(pr.changed_symbols, LAMBDA cs : cs.symbol.file_path = file_path)
        parsed(cf) == parse_unified_diff(<<DiffHeaderLine(cf.path, cf.path)>> \o cf.patch)
        raw == SelectSeq(pr.changed_files,
                         LAMBDA cf : /\ cf.path = file_path
                                     /\ ~PatchIsFalsy(cf.patch)
                                     /\ parsed(cf) # <<>>)
    IN  IF own # <<>> THEN <<own[1].diff_lines>>
        ELSE IF raw # <<>> THEN all_modified_line_ranges(parsed(raw[1])[1])
        ELSE <<>>

\* compute_file_overlaps: the dict, as a function of the other PRs' numbers
compute_file_overlaps(target_pr, other_prs) ==
    LET sharing == {i \in DOMAIN other_prs :
                        /\ other_prs[i].number # target_pr.number
                        /\ file_paths(target_pr) \cap file_paths(other_prs[i]) # {}}
        overlapsOf(other) ==
            LET shared_files == SetToSeq(file_paths(target_pr) \cap file_paths(other))
            IN  [k \in DOMAIN shared_files |->
                    FileOverlap(shared_files[k], target_pr.number, other.number,
                                get_modified_ranges(target_pr, shared_files[k]),
                                get_modified_ranges(other, shared_files[k]))]
    IN  [n \in {other_prs[i].number : i \in sharing} |->
            overlapsOf(other_prs[Max({i \in sharing : other_prs[i].number = n})])]

\* file_overlaps.get(other_pr.number, [])
OverlapsWith(file_overlaps, number) ==
    IF number \in DOMAIN file_overlaps THEN file_overlaps[number] ELSE <<>>

\* all_conflicts after the loop of analyze_pr's step 4
all_conflicts(target_pr, other_prs, file_overlaps) ==
    Flatten([i \in DOMAIN other_prs |->
                IF other_prs[i].number = target_pr.number THEN <<>>
                ELSE IF OverlapsWith(file_overlaps, other_prs[i].number) = <<>> THEN <<>>
                ELSE classify_conflicts(target_pr, other_prs[i],
                                        OverlapsWith(file_overlaps, other_prs[i].number))])

\* a loop that forgets the PRs that share no file
no_conflict_prs_OnlyClassified(target_pr, other_prs, file_overlaps) ==
    LET clean == SelectSeq(other_prs, LAMBDA other_pr :
                    /\ other_pr.number # target_pr.number
                    /\ OverlapsWith(file_overlaps, other_pr.number) # <<>>
                    /\ classify_conflicts(target_pr, other_pr,
                            OverlapsWith(file_overlaps, other_pr.number)) = <<>>)
    IN  [i \in DOMAIN clean |-> clean[i].number]

\* a loop that lists every other PR, with conflicts or without
no_conflict_prs_EveryOther(target_pr, other_prs, file_overlaps) ==
    LET clean == SelectSeq(other_prs, LAMBDA other_pr : other_pr.number # target_pr.number)
    IN  [i \in DOMAIN clean |-> clean[i].number]

\* no_conflict_prs after the loop of analyze_pr's step 4
no_conflict_prs(target_pr, other_prs, file_overlaps) ==
    LET clean == SelectSeq(other_prs, LAMBDA other_pr :
                    /\ other_pr.number # target_pr.number
                    /\ \/ OverlapsWith(file_overlaps, other_pr.number) = <<>>
                       \/ classify_conflicts(target_pr, other_pr,
                            OverlapsWith(file_overlaps, other_pr.number)) = <<>>)
    IN  [i \in DOMAIN clean |-> clean[i].number]

\* the classifications detect_attribution can return
AIAttribution == {"human", "ai_confirmed", "ai_suspected", "unknown"}

\* MergeGuardEngine.analyze_pr: the report and the symbol cache afterwards
analyze_pr(pr_number, attribution) ==
    LET fetched == [get_pr(pr_number) EXCEPT !.changed_files = get_pr_files(pr_number)]
        listed == get_open_prs(max_open_prs)
        target == enrich_pr(fetched, cache)
        others == EnrichOthers(listed, pr_number, target.cache)
        target_pr == [target.pr EXCEPT !.ai_attribution = attribution]
        other_prs == others.prs
        file_overlaps == compute_file_overlaps(target_pr, other_prs)
        conflicts == all_conflicts(target_pr, other_prs, file_overlaps)
    IN  [report |-> [pr |-> target_pr,
                     conflicts |-> conflicts,
                     risk_score |-> compute_risk_score(target_pr, conflicts, 0, 0, 0),
                     no_conflict_prs |-> no_conflict_prs(target_pr, other_prs, file_overlaps)],
         cache |-> others.cache]

(***************************************************************************)
(* The engine on a repository with two open PRs, 1 and 2, that change      *)
(* a.py (entities G and F), b.py (entity H) and c.py (no content on the    *)
(* base branch), and, in a crowded repository, FillerCount more recently   *)
(* updated open PRs that change d.py only                                  *)
(***************************************************************************)

MaxHunks == 2
FillerCount == 29

SymbolsOfA == <<Symbol("G", "a.py", 1, 2, {}), Symbol("F", "a.py", 4, 8, {"G"})>>
SymbolsOfB == <<Symbol("H", "b.py", 1, 3, {})>>

Contents ==
    [path \in {"a.py", "b.py", "c.py", "d.py"} |->
        IF path = "a.py" THEN <<SymbolsOfA>>
        ELSE IF path = "b.py" THEN <<SymbolsOfB>>
        ELSE <<>>]

\* hunks of a patch of a.py; s is the number of lines the patch adds above
HunkG == <<HunkHeaderLine(1, 2, 1, 3), <<" ", "g">>, <<"+", "x">>, <<" ", "g">>>>
HunkF(f, s) ==
    IF f = 1 THEN <<HunkHeaderLine(4, 2, 4 + s, 4),
                    <<" ", "f">>, <<"+", "x">>, <<"+", "y">>, <<" ", "f">>>>
    ELSE IF f = 2 THEN <<HunkHeaderLine(5, 1, 5 + s, 2), <<" ", "f">>, <<"+", "z">>>>
    ELSE <<HunkHeaderLine(4, 1, 4 + s, 2), <<"+", "w">>, <<" ", "f">>>>
HunkR(s) == <<HunkHeaderLine(10, 1, 10 + s, 0), <<"-", "r">>>>

\* the patch of a.py with the hunk in G or not, hunk f in F (0: none) and
\* the removal below F or not
PatchOfA(g, f, r) ==
    LET sG == IF g THEN 1 ELSE 0
        sF == IF f = 1 THEN 2 ELSE IF f = 0 THEN 0 ELSE 1
    IN  (IF g THEN HunkG ELSE <<>>)
            \o (IF f = 0 THEN <<>> ELSE HunkF(f, sG))
            \o (IF r THEN HunkR(sG + sF) ELSE <<>>)

HunksIn(g, f, r) ==
    (IF g THEN 1 ELSE 0) + (IF f = 0 THEN 0 ELSE 1) + (IF r THEN 1 ELSE 0)

PatchesOfA ==
    {PatchOfA(g, f, r) : g \in BOOLEAN, f \in 0..3, r \in BOOLEAN} \cap
    {PatchOfA(q[1], q[2], q[3]) :
        q \in {t \in BOOLEAN \X (0..3) \X BOOLEAN :
                    HunksIn(t[1], t[2], t[3]) \in 1..MaxHunks}}

PatchOfB == <<HunkHeaderLine(1, 1, 1, 2), <<" ", "h">>, <<"+", "x">>>>
PatchOfC == <<HunkHeaderLine(1, 1, 1, 2), <<" ", "c">>, <<"+", "x">>>>

\* the number of lines of a patch that begin with the sign
SignCount(patch, sign) ==
    Cardinality({i \in DOMAIN patch : Len(patch[i]) > 0 /\ patch[i][1] = sign})

\* the files of a PR: those of the options that are present, in path order
FilesOf(a, b, c) ==
    LET file(path, opt) ==
            IF opt = <<>> THEN <<>>
            ELSE <<ChangedFile(path, opt[1], SignCount(opt[1], "+"), SignCount(opt[1], "-"))>>
    IN  file("a.py", a) \o file("b.py", b) \o file("c.py", c)

FilesOfPR1 ==
    {FilesOf(a, b, c) :
        a \in {<<>>, <<NoPatch>>} \cup {<<patch>> : patch \in PatchesOfA},
        b \in {<<>>, <<NoPatch>>, <<PatchOfB>>},
        c \in {<<>>, <<PatchOfC>>}}

FilesOfPR2 ==
    {FilesOf(a, b, c) :
        a \in {<<>>, <<PatchOfA(FALSE, 2, FALSE)>>, <<PatchOfA(FALSE, 3, FALSE)>>,
               <<PatchOfA(TRUE, 0, FALSE)>>, <<PatchOfA(TRUE, 2, FALSE)>>},
        b \in {<<>>, <<PatchOfB>>},
        c \in {<<>>, <<PatchOfC>>}}

Fillers ==
    [i \in 1..FillerCount |->
        [number |-> 100 + i, files |-> <<ChangedFile("d.py", NoPatch, 0, 0)>>]]

Repos ==
    {[prs |-> (IF crowded THEN Fillers ELSE <<>>)
                \o <<[number |-> 1, files |-> f1], [number |-> 2, files |-> f2]>>,
      contents |-> Contents] :
        crowded \in BOOLEAN, f1 \in FilesOfPR1, f2 \in FilesOfPR2}

InitEngine ==
    /\ pc = "idle"
    /\ call = NoCall
    /\ ret = NoRet
    /\ pos = 0
    /\ scan = ScanInit
    /\ decisions = <<>>
    /\ cache = <<>>
    /\ graph = DependencyGraph
    /\ repo \in Repos

AnalyzePr ==
    /\ pc = "idle"
    /\ \E pr_number \in {1, 2}, attribution \in AIAttribution :
        LET done == analyze_pr(pr_number, attribution)
        IN  /\ call' = [op |-> "analyze_pr", pr_number |-> pr_number]
            /\ ret' = done.report
            /\ cache' = done.cache
    /\ pc' = "returned"
    /\ UNCHANGED <<pos, scan, decisions, repo, graph>>

NextEngine ==
    \/ AnalyzePr
    \/ Return

SpecEngine == InitEngine /\ [][NextEngine]_vars

AnalyzeReturned == pc = "returned" /\ call.op = "analyze_pr"

\* the numbers of the open PRs, and of those get_open_prs lists
OpenNumbers == {repo.prs[i].number : i \in DOMAIN repo.prs}
ListedNumbers == {repo.prs[i].number : i \in 1..Min({Len(repo.prs), max_open_prs})}

\* the changed file paths of an open PR
PathsOf(number) == {f.path : f \in Range(get_pr_files(number))}

\* the added-line ranges of the PR's patch of the path, one per hunk that
\* adds lines
AddedRanges(number, path) ==
    LET patched == SelectSeq(get_pr_files(number),
                             LAMBDA f : f.path = path /\ ~PatchIsFalsy(f.patch))
    IN  IF patched = <<>> THEN {}
        ELSE Range(all_modified_line_ranges(
                parse_unified_diff(<<DiffHeaderLine(path, path)>> \o patched[1].patch)[1]))

\* the entities of the path on the base branch
EntitiesOf(path) ==
    IF repo.contents[path] = <<>> THEN {} ELSE Range(repo.contents[path][1])

\* the names of the entities of the path that the PR changes
ChangedEntities(number, path) ==
    {sym.name : sym \in {e \in EntitiesOf(path) :
        \E r \in AddedRanges(number, path) :
            RangesOverlap(r[1], r[2], e.start_line, e.end_line)}}

\* both PRs add lines inside the entity, at overlapping ranges
BothAddInside(a, b, path, sym) ==
    \E ra \in AddedRanges(a, path), rb \in AddedRanges(b, path) :
        /\ sym.start_line <= ra[1] /\ ra[2] <= sym.end_line
        /\ sym.start_line <= rb[1] /\ rb[2] <= sym.end_line
        /\ RangesOverlap(ra[1], ra[2], rb[1], rb[2])

\* the conflicts of the report with the other PR about the entity
ConflictsAbout(number, path, name, type) ==
    {k \in DOMAIN ret.conflicts :
        /\ ret.conflicts[k].target_pr = number
        /\ ret.conflicts[k].file_path = path
        /\ ret.conflicts[k].symbol_name = name
        /\ ret.conflicts[k].conflict_type = type}

\* the report has the one CRITICAL HARD conflict about the entity and no
\* BEHAVIORAL one
ReportsHardCritical(number, path, name) ==
    /\ Cardinality(ConflictsAbout(number, path, name, "hard")) = 1
    /\ \A k \in ConflictsAbout(number, path, name, "hard") :
        /\ ret.conflicts[k].severity = "critical"
        /\ ret.conflicts[k].source_pr = call.pr_number
    /\ ConflictsAbout(number, path, name, "behavioral") = {}

\* C1: whenever the analyzed PR and another listed open PR each add lines
\* inside the same function F of the same file at overlapping added-line
\* ranges, and F is the only entity of that file both of them change, the
\* report has exactly one HARD conflict for the pair about F, of severity
\* CRITICAL, and no BEHAVIORAL conflict about F, whatever other hunks the
\* two patches have
C1_OverlapInF ==
    AnalyzeReturned =>
        \A n \in ListedNumbers \ {call.pr_number}, path \in DOMAIN repo.contents :
            \A sym \in EntitiesOf(path) :
                (/\ BothAddInside(call.pr_number, n, path, sym)
                 /\ ChangedEntities(call.pr_number, path) \cap ChangedEntities(n, path)
                        = {sym.name})
                    => ReportsHardCritical(n, path, sym.name)

\* the first added-line range of the PR's patch of the path lies inside the
\* entity
FirstAddsInside(number, path, sym) ==
    LET patched == SelectSeq(get_pr_files(number),
                             LAMBDA f : f.path = path /\ ~PatchIsFalsy(f.patch))
        ranges == all_modified_line_ranges(
                    parse_unified_diff(<<DiffHeaderLine(path, path)>> \o patched[1].patch)[1])
    IN  /\ patched # <<>>
        /\ ranges # <<>>
        /\ sym.start_line <= ranges[1][1] /\ ranges[1][2] <= sym.end_line

\* the statement of C1 does hold where the overlapping ranges are the first
\* added-line ranges of the two patches
C1_HoldsForFirstRanges ==
    AnalyzeReturned =>
        \A n \in ListedNumbers \ {call.pr_number}, path \in DOMAIN repo.contents :
            \A sym \in EntitiesOf(path) :
                (/\ FirstAddsInside(call.pr_number, path, sym)
                 /\ FirstAddsInside(n, path, sym)
                 /\ BothAddInside(call.pr_number, n, path, sym)
                 /\ ChangedEntities(call.pr_number, path) \cap ChangedEntities(n, path)
                        = {sym.name})
                    => ReportsHardCritical(n, path, sym.name)

\* the analyzed PR shares no changed file path with the open PR
DisjointFrom(number) == PathsOf(call.pr_number) \cap PathsOf(number) = {}

\* the report has no conflict with the PR and lists it as free of conflicts
ReportedClear(number) ==
    /\ \A k \in DOMAIN ret.conflicts : ret.conflicts[k].target_pr # number
    /\ \E k \in DOMAIN ret.no_conflict_prs : ret.no_conflict_prs[k] = number

\* C6 (as stated): if the analyzed PR and another open PR have no changed
\* file path in common, the report has no conflict whose target_pr is that
\* PR and that PR's number is in no_conflict_prs; either of the two PRs may
\* be the analyzed one
C6_AnyOpen ==
    AnalyzeReturned =>
        \A n \in OpenNumbers \ {call.pr_number} : DisjointFrom(n) => ReportedClear(n)

\* C6 (amended): the same for another open PR that is among the first
\* max_open_prs open PRs in the order of their last update; an open PR
\* beyond those is neither the target of a conflict nor in no_conflict_prs
C6_ListedOpen ==
    AnalyzeReturned =>
        /\ \A n \in ListedNumbers \ {call.pr_number} : DisjointFrom(n) => ReportedClear(n)
        /\ \A n \in OpenNumbers \ ListedNumbers :
            /\ \A k \in DOMAIN ret.conflicts : ret.conflicts[k].target_pr # n
            /\ \A k \in DOMAIN ret.no_conflict_prs : ret.no_conflict_prs[k] # n

\* PR 1 changes a.py, PR 2 changes b.py and c.py, no other PR is open, and
\* the report on PR 2 has no conflict and lists PR 1 as free of conflicts
C6_Witness ==
    /\ AnalyzeReturned
    /\ call.pr_number = 2
    /\ OpenNumbers = {1, 2}
    /\ PathsOf(1) = {"a.py"}
    /\ AddedRanges(1, "a.py") # {}
    /\ PathsOf(2) = {"b.py", "c.py"}
    /\ ret.conflicts = <<>>
    /\ ret.no_conflict_prs = <<1>>

(***************************************************************************)
(* FileDiff.all_modified_line_ranges on file diffs of any shape: the added *)
(* lines of a hunk in any order of their numbers                           *)
(***************************************************************************)

MaxFileHunks == 2

\* lists of (line_number, content) of at most two lines
NumberedLineLists ==
    {<<>>} \cup {<<<<n, <<"x">>>>>> : n \in 1..3}
           \cup {<<<<n, <<"x">>>>, <<m, <<"y">>>>>> : n \in 1..3, m \in 1..3}

RangeHunks ==
    {[DiffHunk(1, 1, 1, 1) EXCEPT !.added_lines = added,
                                  !.removed_lines = other[1],
                                  !.context_lines = other[2]] :
        added \in NumberedLineLists,
        other \in {<<<<>>, <<>>>>,
                   <<<<<<1, <<"r">>>>>>, <<>>>>,
                   <<<<>>, <<<<2, <<"c">>>>>>>>}}

RangesCall ==
    /\ pc = "idle"
    /\ \E hunks \in SeqsUpTo(RangeHunks, MaxFileHunks) :
        LET fd == [FileDiff("a.py", None) EXCEPT !.hunks = hunks]
        IN  /\ call' = [op |-> "all_modified_line_ranges", file_diff |-> fd]
            /\ ret' = all_modified_line_ranges(fd)
    /\ pc' = "returned"
    /\ UNCHANGED <<pos, scan, decisions, repo, cache, graph>>

NextRanges ==
    \/ RangesCall
    \/ Return

SpecRanges == InitIdle /\ [][NextRanges]_vars

RangesReturned == pc = "returned" /\ call.op = "all_modified_line_ranges"

\* the positions of the hunks that have an added line
AddingHunks(fd) == {i \in DOMAIN fd.hunks : fd.hunks[i].added_lines # <<>>}

\* the k-th of them in hunk order
KthAddingHunk(fd, k) ==
    CHOOSE i \in AddingHunks(fd) : Cardinality({j \in AddingHunks(fd) : j <= i}) = k

\* C11: all_modified_line_ranges has, in hunk order, exactly one range for
\* each hunk with at least one added line, from the smallest to the largest
\* added line number of that hunk, no range for a hunk with removed or
\* context lines only, and start <= end in every range
C11_ModifiedRanges ==
    RangesReturned =>
        LET fd == call.file_diff
        IN  /\ Len(ret) = Cardinality(AddingHunks(fd))
            /\ \A k \in DOMAIN ret :
                LET added == fd.hunks[KthAddingHunk(fd, k)].added_lines
                IN  /\ \E i \in DOMAIN added : added[i][1] = ret[k][1]
                    /\ \E i \in DOMAIN added : added[i][1] = ret[k][2]
                    /\ \A i \in DOMAIN added : ret[k][1] <= added[i][1] /\ added[i][1] <= ret[k][2]
                    /\ ret[k][1] <= ret[k][2]

\* a hunk with a removed line only, then a hunk that adds line 3 before line
\* 1: the one range is (1, 3)
C11_Witness ==
    /\ RangesReturned
    /\ Len(call.file_diff.hunks) = 2
    /\ call.file_diff.hunks[1].added_lines = <<>>
    /\ call.file_diff.hunks[1].removed_lines # <<>>
    /\ call.file_diff.hunks[2].added_lines = <<<<3, <<"x">>>>, <<1, <<"y">>>>>>
    /\ ret = <<<<1, 3>>>>

(***************************************************************************)
(* Calls of the similarity functions                                       *)
(***************************************************************************)

MaxNameLen == 2
MaxCompared == 2

\* every name of at most MaxNameLen characters, and some longer ones
Names ==
    SeqsUpTo({"a", "b", "A", "_"}, MaxNameLen) \cup
    { <<"l", "o", "a", "d">>, <<"L", "o", "a", "d">>, <<"l", "o", "_", "a", "d">>,
      <<"l", "o", "a", "d", "s">>, <<"s", "a", "v", "e">>, <<"l", "o", "a">>,
      <<"l", "o", "a", "_">>, <<"d", "a", "o", "l">> }

NameDistanceCall ==
    /\ pc = "idle"
    /\ \E name_a \in Names, name_b \in Names :
        /\ call' = [op |-> "_name_distance", name_a |-> name_a, name_b |-> name_b]
        /\ ret' = name_distance(name_a, name_b)
    /\ pc' = "returned"
    /\ UNCHANGED <<pos, scan, decisions, repo, cache, graph>>

JaccardCall ==
    /\ pc = "idle"
    /\ \E set_a \in SUBSET {"a", "b", "c"}, set_b \in SUBSET {"a", "b", "c"} :
        /\ call' = [op |-> "jaccard_similarity", set_a |-> set_a, set_b |-> set_b]
        /\ ret' = jaccard_similarity(set_a, set_b)
    /\ pc' = "returned"
    /\ UNCHANGED <<pos, scan, decisions, repo, cache, graph>>

\* "def load(path)", "def load(path, mode)", "()" and the like
SignatureOf(words) ==
    IF words = <<>> THEN <<"(", ")">>
    ELSE <<"def", " ", words[1], "(">>
            \o Flatten([i \in 1..(Len(words) - 1) |->
                    IF i = 1 THEN <<words[i + 1]>> ELSE <<",", " ", words[i + 1]>>])
            \o <<")">>

ComparedSymbols ==
    LET load == <<"l", "o", "a", "d">>
        loads == <<"l", "o", "a", "d", "s">>
        Load == <<"L", "o", "a", "d">>
    IN  { TypedSymbol(load, "function", <<SignatureOf(<<"load", "path">>)>>),
          TypedSymbol(loads, "function", <<SignatureOf(<<"load", "path">>)>>),
          TypedSymbol(load, "class", <<SignatureOf(<<"load", "path">>)>>),
          TypedSymbol(load, "function",
                      <<SignatureOf(<<"load", "path", "mode", "x", "y">>)>>),
          TypedSymbol(load, "function", <<<<>>>>),
          TypedSymbol(<<"s", "a", "v", "e">>, "function", <<SignatureOf(<<>>)>>),
          TypedSymbol(Load, "function", NoSignature) }

Thresholds == {<<Frac(6, 10), Frac(7, 10)>>, <<Frac(95, 100), Frac(1, 2)>>}

DetectDuplicationsCall ==
    /\ pc = "idle"
    /\ \E new_symbols \in SeqsUpTo(ComparedSymbols, MaxCompared),
          other_symbols \in SeqsUpTo(ComparedSymbols, MaxCompared),
          th \in Thresholds :
        /\ call' = [op |-> "detect_potential_duplications",
                    new_symbols |-> new_symbols, other_symbols |-> other_symbols,
                    name_threshold |-> th[1], signature_threshold |-> th[2]]
        /\ ret' = detect_potential_duplications(new_symbols, other_symbols, th[1], th[2])
    /\ pc' = "returned"
    /\ UNCHANGED <<pos, scan, decisions, repo, cache, graph>>

NextSimilarity ==
    \/ NameDistanceCall
    \/ JaccardCall
    \/ DetectDuplicationsCall
    \/ Return

SpecSimilarity == InitIdle /\ [][NextSimilarity]_vars

NameDistanceReturned == pc = "returned" /\ call.op = "_name_distance"

\* one name is the other with something appended
StrictPrefix(short, long) == Len(short) < Len(long) /\ SubSeq(long, 1, Len(short)) = short

\* C12: _name_distance(a, b) is 1.0 exactly when a = b; otherwise 0.95
\* exactly when the names are equal after lowercasing and removing
\* underscores; otherwise 0.7 exactly when one normalized name is a strict
\* prefix of the other and the shorter one has more than 3 characters;
\* otherwise half the Jaccard overlap of the normalized names' character sets
C12_TieredNameDistance ==
    NameDistanceReturned =>
        LET a == call.name_a
            b == call.name_b
            na == NormalizeName(a)
            nb == NormalizeName(b)
            chars == Range(na) \cup Range(nb)
            common == Range(na) \cap Range(nb)
        IN  IF a = b THEN FracEq(ret, Frac(1, 1))
            ELSE IF na = nb THEN FracEq(ret, Frac(95, 100))
            ELSE IF \/ StrictPrefix(na, nb) /\ Len(na) > 3
                    \/ StrictPrefix(nb, na) /\ Len(nb) > 3
            THEN FracEq(ret, Frac(7, 10))
            ELSE /\ FracLeq(ret, Frac(1, 2))
                 /\ IF chars = {} THEN ret[1] = 0
                    ELSE FracEq(ret, Frac(Cardinality(common), 2 * Cardinality(chars)))

\* the tiers are as stated for names whose normalized forms differ in length
C12_HoldsForUnequalLengths ==
    (NameDistanceReturned
        /\ Len(NormalizeName(call.name_a)) # Len(NormalizeName(call.name_b)))
    => C12_TieredNameDistance

DuplicationsReturned == pc = "returned" /\ call.op = "detect_potential_duplications"

\* the pair of the i-th new and the j-th other symbol qualifies: same kind,
\* name similarity at least the name threshold, and 0.4 * name similarity
\* + 0.6 * signature similarity at least the combined threshold
Qualifies(i, j) ==
    LET n == call.new_symbols[i]
        o == call.other_symbols[j]
        name_sim == name_distance(n.name, o.name)
        sig_sim == IF n.signature \in {NoSignature, <<<<>>>>}
                        \/ o.signature \in {NoSignature, <<<<>>>>}
                   THEN Frac(0, 1)
                   ELSE jaccard_similarity(tokenize_signature(n.signature[1]),
                                           tokenize_signature(o.signature[1]))
    IN  /\ n.symbol_type = o.symbol_type
        /\ FracLeq(call.name_threshold, name_sim)
        /\ 10 * call.signature_threshold[1] * name_sim[2] * sig_sim[2]
            <= call.signature_threshold[2] *
                (4 * name_sim[1] * sig_sim[2] + 6 * sig_sim[1] * name_sim[2])

\* the reported triple is the pair (i, j) with its combined score
ReportsPair(triple, i, j) ==
    LET n == call.new_symbols[i]
        o == call.other_symbols[j]
        name_sim == name_distance(n.name, o.name)
        sig_sim == signature_similarity(n.signature, o.signature)
    IN  /\ triple[1] = n
        /\ triple[2] = o
        /\ 10 * triple[3][1] * name_sim[2] * sig_sim[2]
            = triple[3][2] * (4 * name_sim[1] * sig_sim[2] + 6 * sig_sim[1] * name_sim[2])

\* C13: detect_potential_duplications reports the pair (n, o) iff the two
\* have the same symbol kind, their name similarity is at least the name
\* threshold and 0.4 * name similarity + 0.6 * signature similarity is at
\* least the combined threshold; the reported score is that combination;
\* the signature similarity is the Jaccard of the word sets of the two
\* signatures, 0 when a signature is absent or empty; each qualifying pair
\* is reported once per occurrence, (n, o) and (o, n) apart
C13_ReportedPairs ==
    DuplicationsReturned =>
        LET pairs == {p \in (DOMAIN call.new_symbols) \X (DOMAIN call.other_symbols) :
                        Qualifies(p[1], p[2])}
        IN  /\ Len(ret) = Cardinality(pairs)
            /\ \A k \in DOMAIN ret : \E p \in pairs : ReportsPair(ret[k], p[1], p[2])
            /\ \A p \in pairs :
                Cardinality({k \in DOMAIN ret : ReportsPair(ret[k], p[1], p[2])})
                    = Cardinality({q \in pairs :
                        /\ call.new_symbols[q[1]] = call.new_symbols[p[1]]
                        /\ call.other_symbols[q[2]] = call.other_symbols[p[2]]})

\* the function "load" twice among the new symbols, against itself and a
\* class of the same name: the pair with itself is reported twice
C13_Witness ==
    /\ DuplicationsReturned
    /\ call.name_threshold = Frac(6, 10)
    /\ call.signature_threshold = Frac(7, 10)
    /\ Len(call.new_symbols) = 2
    /\ call.new_symbols[1] = call.new_symbols[2]
    /\ call.new_symbols[1].name = <<"l", "o", "a", "d">>
    /\ call.new_symbols[1].symbol_type = "function"
    /\ Len(call.other_symbols) = 2
    /\ call.other_symbols[1] = call.new_symbols[1]
    /\ call.other_symbols[2].symbol_type = "class"
    /\ call.other_symbols[2].name = <<"l", "o", "a", "d">>
    /\ Len(ret) = 2
    /\ FracEq(ret[1][3], Frac(1, 1))

\* C14: the list that detect_potential_duplications returns is ranked by
\* score: the scores of the reported pairs never increase along the list
C14_RankedByScore ==
    DuplicationsReturned =>
        \A k \in 1..(Len(ret) - 1) : FracLeq(ret[k + 1][3], ret[k][3])

JaccardReturned == pc = "returned" /\ call.op = "jaccard_similarity"

\* C15: jaccard_similarity(A, B) = |A n B| / |A u B| is symmetric, within
\* [0, 1], 1.0 exactly when A = B is not empty, and 0.0 exactly when A and
\* B are disjoint, both empty included
C15_Jaccard ==
    JaccardReturned =>
        LET A == call.set_a
            B == call.set_b
        IN  /\ ret[2] > 0
            /\ (A \cup B # {}) =>
                ret[1] * Cardinality(A \cup B) = Cardinality(A \cap B) * ret[2]
            /\ FracEq(ret, jaccard_similarity(B, A))
            /\ FracLeq(Frac(0, 1), ret) /\ FracLeq(ret, Frac(1, 1))
            /\ FracEq(ret, Frac(1, 1)) <=> (A = B /\ A # {})
            /\ FracEq(ret, Frac(0, 1)) <=> (A \cap B = {})

\* two different sets with an element in common
C15_Witness ==
    /\ JaccardReturned
    /\ call.set_a = {"a", "b"}
    /\ call.set_b = {"b", "c"}
    /\ FracEq(ret, Frac(1, 3))

(***************************************************************************)
(* Calls of the risk scorer                                                *)
(***************************************************************************)

MaxConflicts == 4

\* a conflict of the severity
ConflictOf(severity) == Conflict("hard", severity, 1, 2, "a.py", None)

ScoredConflicts == {ConflictOf(sev) : sev \in {"critical", "warning", "info"}}

ScoreConflictsCall ==
    /\ pc = "idle"
    /\ \E conflicts \in SeqsUpTo(ScoredConflicts, MaxConflicts) :
        /\ call' = [op |-> "_score_conflicts", conflicts |-> conflicts]
        /\ ret' = score_conflicts(conflicts)
    /\ pc' = "returned"
    /\ UNCHANGED <<pos, scan, decisions, repo, cache, graph>>

\* the arguments of compute_risk_score: conflict lists, dependency depths,
\* churn and pattern-deviation scores (in ScoreUnit-ths; some outside
\* [0, 1]), and attributions
RiskConflictLists ==
    { <<>>, <<ConflictOf("info")>>, <<ConflictOf("warning")>>, <<ConflictOf("critical")>>,
      <<ConflictOf("warning"), ConflictOf("critical")>> }
RiskDepths == {0 - 1, 0, 1, 6, 7}
RiskScores == {0 - ScoreUnit, 0, ScoreUnit \div 2, ScoreUnit, 5 * ScoreUnit}

ComputeRiskScoreCall ==
    /\ pc = "idle"
    /\ \E conflicts \in RiskConflictLists, depth_count \in RiskDepths,
          churn_score \in RiskScores, pattern_deviation_score \in RiskScores,
          attribution \in AIAttribution :
        LET pr == PRInfo(1, <<>>, <<>>, attribution)
        IN  /\ call' = [op |-> "compute_risk_score", pr |-> pr, conflicts |-> conflicts,
                        dependency_depth |-> depth_count, churn_score |-> churn_score,
                        pattern_deviation_score |-> pattern_deviation_score]
            /\ ret' = compute_risk_score(pr, conflicts, depth_count, churn_score,
                                         pattern_deviation_score)
    /\ pc' = "returned"
    /\ UNCHANGED <<pos, scan, decisions, repo, cache, graph>>

NextRisk ==
    \/ ScoreConflictsCall
    \/ ComputeRiskScoreCall
    \/ Return

SpecRisk == InitIdle /\ [][NextRisk]_vars

ScoreConflictsReturned == pc = "returned" /\ call.op = "_score_conflicts"

\* the scores of the conflicts, largest first: position k holds the score v
\* with fewer than k scores above v and at least k scores not below v
DescendingScores(conflicts) ==
    LET score(i) == SeverityScore(conflicts[i].severity)
    IN  [k \in DOMAIN conflicts |->
            CHOOSE v \in {100, 50, 15} :
                /\ Cardinality({i \in DOMAIN conflicts : score(i) > v}) < k
                /\ Cardinality({i \in DOMAIN conflicts : score(i) >= v}) >= k]

RECURSIVE Pow2(_)
Pow2(n) == IF n = 0 THEN 1 ELSE 2 * Pow2(n - 1)

RECURSIVE DecayedTotal(_, _)
\* the sum of s_i * 0.5^i over the first n scores, in Pow2(MaxConflicts)-ths
DecayedTotal(scores, n) ==
    IF n = 0 THEN 0
    ELSE DecayedTotal(scores, n - 1) + scores[n] * Pow2(MaxConflicts + 1 - n)

\* the conflicts in the order the permutation gives
Permuted(conflicts, perm) == [i \in DOMAIN conflicts |-> conflicts[perm[i]]]

\* C16: _score_conflicts is 0 for an empty list and otherwise
\* min(100, sum of s_i * 0.5^i) over the conflicts' scores (critical 100,
\* warning 50, info 15) sorted descending; it does not depend on the order
\* of the list, a single conflict scores 100, 50 or 15, and one CRITICAL
\* with one WARNING scores 100
C16_ScoreConflicts ==
    ScoreConflictsReturned =>
        LET conflicts == call.conflicts
            scores == DescendingScores(conflicts)
            total == DecayedTotal(scores, Len(scores))
        IN  /\ conflicts = <<>> => ret = 0
            /\ conflicts # <<>> =>
                ret * Pow2(MaxConflicts) =
                    ScoreUnit * (IF total > 100 * Pow2(MaxConflicts)
                                 THEN 100 * Pow2(MaxConflicts) ELSE total)
            /\ \A perm \in Permutations(DOMAIN conflicts) :
                score_conflicts(Permuted(conflicts, perm)) = ret
            /\ Len(conflicts) = 1 =>
                ret = ScoreUnit * (IF conflicts[1].severity = "critical" THEN 100
                                   ELSE IF conflicts[1].severity = "warning" THEN 50
                                   ELSE 15)
            /\ (Len(conflicts) = 2
                    /\ {conflicts[1].severity, conflicts[2].severity} = {"critical", "warning"})
                => ret = 100 * ScoreUnit

\* an INFO, a WARNING and another INFO conflict: 50 + 7.5 + 3.75
C16_Witness ==
    /\ ScoreConflictsReturned
    /\ Len(call.conflicts) = 3
    /\ call.conflicts[1].severity = "info"
    /\ call.conflicts[2].severity = "warning"
    /\ call.conflicts[3].severity = "info"
    /\ 4 * ret = 245 * ScoreUnit

ComputeRiskScoreReturned == pc = "returned" /\ call.op = "compute_risk_score"

\* human/unknown < AI-suspected < AI-confirmed
AttributionLevel(attribution) ==
    IF attribution = "ai_confirmed" THEN 2
    ELSE IF attribution = "ai_suspected" THEN 1
    ELSE 0

\* the total of the call with one argument replaced
TotalWith(field, value) ==
    LET args == [call EXCEPT ![field] = value]
    IN  compute_risk_score(args.pr, args.conflicts, args.dependency_depth,
                           args.churn_score, args.pattern_deviation_score)

\* C17: the total of compute_risk_score lies in [0, 100]; raising one of
\* the five factors alone (the conflict-severity factor, the dependency
\* depth, the pattern deviation score, the churn score, the attribution
\* level) never lowers it; and with no conflicts, depth 0, zero scores and
\* an attribution that is not AI it is 0
C17_RiskScore ==
    ComputeRiskScoreReturned =>
        /\ 0 <= ret /\ ret <= FullScore
        /\ \A conflicts \in RiskConflictLists :
            score_conflicts(conflicts) >= score_conflicts(call.conflicts)
                => TotalWith("conflicts", conflicts) >= ret
        /\ \A depth_count \in RiskDepths :
            depth_count >= call.dependency_depth
                => TotalWith("dependency_depth", depth_count) >= ret
        /\ \A score \in RiskScores :
            /\ score >= call.pattern_deviation_score
                => TotalWith("pattern_deviation_score", score) >= ret
            /\ score >= call.churn_score
                => TotalWith("churn_score", score) >= ret
        /\ \A attribution \in AIAttribution :
            AttributionLevel(attribution) >= AttributionLevel(call.pr.ai_attribution)
                => TotalWith("pr", [call.pr EXCEPT !.ai_attribution = attribution]) >= ret
        /\ (/\ call.conflicts = <<>>
            /\ call.dependency_depth = 0
            /\ call.pattern_deviation_score = 0
            /\ call.churn_score = 0
            /\ AttributionLevel(call.pr.ai_attribution) = 0) => ret = 0

\* a total above 100 points before the clamp: a CRITICAL conflict, seven
\* dependents, scores of 5 and a confirmed AI attribution
C17_Witness ==
    /\ ComputeRiskScoreReturned
    /\ call.conflicts = <<ConflictOf("critical")>>
    /\ call.dependency_depth = 7
    /\ call.churn_score = 5 * ScoreUnit
    /\ call.pattern_deviation_score = 5 * ScoreUnit
    /\ call.pr.ai_attribution = "ai_confirmed"
    /\ ret = FullScore

\* a total between the bounds: a WARNING conflict, one dependent, a churn
\* score of 0.5 and a suspected AI attribution give 15 + 3.75 + 7.5 + 2
C17_WitnessInside ==
    /\ ComputeRiskScoreReturned
    /\ call.conflicts = <<ConflictOf("warning")>>
    /\ call.dependency_depth = 1
    /\ call.churn_score = ScoreUnit \div 2
    /\ call.pattern_deviation_score = 0
    /\ call.pr.ai_attribution = "ai_suspected"
    /\ 4 * ret = 113 * 100 * ScoreUnit

(***************************************************************************)
(* Calls on a DependencyGraph                                              *)
(***************************************************************************)

GraphFiles == {"f0.py", "f1.py", "f2.py", "f3.py", "f4.py", "f5.py", "f6.py"}

\* the import edges a graph is built from, in the order they are added: a
\* chain of six imports down to f0.py, the first import once more, an
\* import that closes a cycle, a shortcut and a file importing itself
CandidateEdges ==
    << ImportEdge("f1.py", "f0.py", <<>>),
       ImportEdge("f2.py", "f1.py", <<>>),
       ImportEdge("f3.py", "f2.py", <<>>),
       ImportEdge("f4.py", "f3.py", <<>>),
       ImportEdge("f5.py", "f4.py", <<>>),
       ImportEdge("f6.py", "f5.py", <<>>),
       ImportEdge("f1.py", "f0.py", <<"F">>),
       ImportEdge("f0.py", "f2.py", <<>>),
       ImportEdge("f6.py", "f0.py", <<>>),
       ImportEdge("f0.py", "f0.py", <<>>) >>

\* the position in CandidateEdges of the edge added last
LastAdded(g) ==
    IF g.edges = <<>> THEN 0
    ELSE CHOOSE k \in DOMAIN CandidateEdges : CandidateEdges[k] = g.edges[Len(g.edges)]

\* the max_depth arguments
GraphDepths == {0 - 1, 0, 1, 2, 4, 5, 6}

AddEdge ==
    /\ pc = "idle"
    /\ \E k \in DOMAIN CandidateEdges :
        /\ k > LastAdded(graph)
        /\ graph' = add_edge(graph, CandidateEdges[k])
    /\ UNCHANGED <<pc, call, ret, pos, scan, decisions, repo, cache>>

GetDependentsCall ==
    /\ pc = "idle"
    /\ \E file_path \in GraphFiles, max_depth \in GraphDepths :
        /\ call' = [op |-> "get_dependents", file_path |-> file_path, max_depth |-> max_depth]
        /\ ret' = get_dependents(graph, file_path, max_depth)
    /\ pc' = "returned"
    /\ UNCHANGED <<pos, scan, decisions, repo, cache, graph>>

GetDependenciesCall ==
    /\ pc = "idle"
    /\ \E file_path \in GraphFiles, max_depth \in GraphDepths :
        /\ call' = [op |-> "get_dependencies", file_path |-> file_path, max_depth |-> max_depth]
        /\ ret' = get_dependencies(graph, file_path, max_depth)
    /\ pc' = "returned"
    /\ UNCHANGED <<pos, scan, decisions, repo, cache, graph>>

DependencyDepthCall ==
    /\ pc = "idle"
    /\ \E file_path \in GraphFiles :
        /\ call' = [op |-> "dependency_depth", file_path |-> file_path]
        /\ ret' = dependency_depth(graph, file_path)
    /\ pc' = "returned"
    /\ UNCHANGED <<pos, scan, decisions, repo, cache, graph>>

NextGraph ==
    \/ AddEdge
    \/ GetDependentsCall
    \/ GetDependenciesCall
    \/ DependencyDepthCall
    \/ Return

SpecGraph == InitIdle /\ [][NextGraph]_vars

\* the files importing a file of the set (reverse) or imported by one
\* (forward), read off the edge list
OneStep(edges, files, reverse) ==
    IF reverse
    THEN {edges[i].source_file : i \in {j \in DOMAIN edges : edges[j].target_file \in files}}
    ELSE {edges[i].target_file : i \in {j \in DOMAIN edges : edges[j].source_file \in files}}

RECURSIVE ExactlySteps(_, _, _, _)
\* the files at the end of a path of exactly n edges from the file
ExactlySteps(edges, file_path, n, reverse) ==
    IF n = 0 THEN {file_path}
    ELSE OneStep(edges, ExactlySteps(edges, file_path, n - 1, reverse), reverse)

\* the other files at the end of a path of 1 to max_depth edges
WithinSteps(edges, file_path, max_depth, reverse) ==
    UNION {ExactlySteps(edges, file_path, n, reverse) : n \in 1..max_depth} \ {file_path}

GraphReturned(op) == pc = "returned" /\ call.op = op

\* C18: get_dependents(f, d) is the set of files other than f reached from
\* f by 1 to d reverse import edges, get_dependencies(f, d) the same over
\* forward edges; f is never in the result and d = 0 gives the empty set
C18_BoundedReachability ==
    /\ GraphReturned("get_dependents") =>
        /\ ret = WithinSteps(graph.edges, call.file_path, call.max_depth, TRUE)
        /\ call.file_path \notin ret
        /\ call.max_depth = 0 => ret = {}
    /\ GraphReturned("get_dependencies") =>
        /\ ret = WithinSteps(graph.edges, call.file_path, call.max_depth, FALSE)
        /\ call.file_path \notin ret
        /\ call.max_depth = 0 => ret = {}

\* get_dependents of f0.py with depth 2 on the chain with the cycle through
\* f0.py and the shortcut from f6.py
C18_Witness ==
    /\ GraphReturned("get_dependents")
    /\ call.file_path = "f0.py"
    /\ call.max_depth = 2
    /\ Len(graph.edges) = 8
    /\ "f0.py" \in ExactlySteps(graph.edges, "f0.py", 3, TRUE)
    /\ ret = {"f1.py", "f2.py", "f6.py"}

\* get_dependencies of f6.py with depth 4 on a chain of six imports
C18_WitnessForward ==
    /\ GraphReturned("get_dependencies")
    /\ call.file_path = "f6.py"
    /\ call.max_depth = 4
    /\ Len(graph.edges) = 6
    /\ ret = {"f5.py", "f4.py", "f3.py", "f2.py"}

\* the files other than f that import f through a chain of any length
AllDependents(edges, file_path) ==
    WithinSteps(edges, file_path, Cardinality(GraphFiles), TRUE)

\* C19: dependency_depth(f) is the number of files other than f that import
\* f through a chain of import edges of any length
C19_CountsAllDependents ==
    GraphReturned("dependency_depth") =>
        ret = Cardinality(AllDependents(graph.edges, call.file_path))

\* dependency_depth(f) is the number of files other than f that import f
\* through a chain of at most DefaultMaxDepth import edges
C19_CountsWithinDefaultDepth ==
    GraphReturned("dependency_depth") =>
        ret = Cardinality(WithinSteps(graph.edges, call.file_path, DefaultMaxDepth, TRUE))

(***************************************************************************)
(* Calls on a SymbolIndex                                                  *)
(***************************************************************************)

IndexPaths == {"a.py", "b.py"}
IndexRefs == {"HEAD", "main"}
IndexNames == {"F", "G", "H", "X"}

\* the contents a path has at one time or another, each given by its symbols
IndexSources(path) ==
    IF path = "a.py"
    THEN {<<SymbolsOfA>>, <<<<Symbol("F", "a.py", 1, 5, {"G"})>>>>}
    ELSE {<<SymbolsOfB>>, <<<<Symbol("H", "b.py", 1, 3, {"G"}), Symbol("H", "b.py", 5, 6, {})>>>>}

\* the orders in which a dict can yield its keys
ItemsOrders(index) ==
    {order \in [1..Cardinality(DOMAIN index) -> DOMAIN index] :
        \A i, j \in DOMAIN order : i # j => order[i] # order[j]}

GetSymbolsCall ==
    /\ pc = "idle"
    /\ \E file_path \in IndexPaths, ref \in IndexRefs :
        \E source_code \in IndexSources(file_path) :
            LET result == get_symbols(cache, file_path, source_code, ref)
            IN  /\ call' = [op |-> "get_symbols", file_path |-> file_path,
                            source_code |-> source_code, ref |-> ref]
                /\ ret' = result.symbols
                /\ cache' = result.cache
    /\ pc' = "returned"
    /\ UNCHANGED <<pos, scan, decisions, repo, graph>>

FindSymbolCall ==
    /\ pc = "idle"
    /\ \E file_path \in IndexPaths, symbol_name \in IndexNames, ref \in IndexRefs :
        /\ call' = [op |-> "find_symbol", file_path |-> file_path,
                    symbol_name |-> symbol_name, ref |-> ref]
        /\ ret' = find_symbol(cache, file_path, symbol_name, ref)
    /\ pc' = "returned"
    /\ UNCHANGED <<pos, scan, decisions, repo, cache, graph>>

FindCallersCall ==
    /\ pc = "idle"
    /\ \E symbol_name \in IndexNames, ref \in IndexRefs, items_order \in ItemsOrders(cache) :
        /\ call' = [op |-> "find_callers", symbol_name |-> symbol_name, ref |-> ref]
        /\ ret' = find_callers(cache, symbol_name, ref, items_order)
    /\ pc' = "returned"
    /\ UNCHANGED <<pos, scan, decisions, repo, cache, graph>>

Clear ==
    /\ pc = "idle"
    /\ call' = [op |-> "clear"]
    /\ ret' = NoRet
    /\ cache' = clear(cache)
    /\ pc' = "returned"
    /\ UNCHANGED <<pos, scan, decisions, repo, graph>>

ClearFile ==
    /\ pc = "idle"
    /\ \E file_path \in IndexPaths, ref \in IndexRefs :
        /\ call' = [op |-> "clear_file", file_path |-> file_path, ref |-> ref]
        /\ cache' = clear_file(cache, file_path, ref)
    /\ ret' = NoRet
    /\ pc' = "returned"
    /\ UNCHANGED <<pos, scan, decisions, repo, graph>>

NextIndex ==
    \/ GetSymbolsCall
    \/ FindSymbolCall
    \/ FindCallersCall
    \/ Clear
    \/ ClearFile
    \/ Return

SpecIndex == InitIdle /\ [][NextIndex]_vars

\* the key of the call that has just been made
CalledKey == <<call'.file_path, call'.ref>>

\* the other keys are cached with the same lists before and after the step
OthersKept(key) ==
    /\ DOMAIN cache' \ {key} = DOMAIN cache \ {key}
    /\ \A k \in DOMAIN cache \ {key} : cache'[k] = cache[k]

\* what one step does to the cache
CacheStep ==
    /\ pc' = "idle" => cache' = cache
    /\ (pc' = "returned" /\ call'.op = "get_symbols") =>
        /\ CalledKey \in DOMAIN cache'
        /\ OthersKept(CalledKey)
        /\ CalledKey \in DOMAIN cache =>
            /\ cache'[CalledKey] = cache[CalledKey]
            /\ ret' = cache[CalledKey]
        /\ CalledKey \notin DOMAIN cache =>
            /\ cache'[CalledKey] = extract_symbols(call'.source_code, call'.file_path)
            /\ ret' = cache'[CalledKey]
    /\ (pc' = "returned" /\ call'.op = "find_symbol") =>
        /\ cache' = cache
        /\ CalledKey \notin DOMAIN cache => ret' = <<>>
    /\ (pc' = "returned" /\ call'.op = "find_callers") => cache' = cache
    /\ (pc' = "returned" /\ call'.op = "clear") => DOMAIN cache' = {}
    /\ (pc' = "returned" /\ call'.op = "clear_file") =>
        /\ CalledKey \notin DOMAIN cache'
        /\ OthersKept(CalledKey)

\* C20: a key (file path, ref) enters the cache only by a get_symbols call
\* with that key and leaves it only by clear() or by clear_file of that
\* key; get_symbols on a present key returns the list stored and leaves it
\* stored, on an absent key it stores what it extracts; another ref of the
\* same path is another entry; find_symbol and find_callers leave the cache
\* as it is and find_symbol on an absent key returns None; clear_file
\* removes its own key only
C20_CacheKeys == [][CacheStep]_vars

\* get_symbols of a.py at HEAD with a changed source returns the list cached
\* for HEAD, while the entry for main holds the symbols of the changed source
C20_Witness ==
    /\ pc = "returned"
    /\ call.op = "get_symbols"
    /\ call.file_path = "a.py"
    /\ call.ref = "HEAD"
    /\ ret = SymbolsOfA
    /\ ret # extract_symbols(call.source_code, call.file_path)
    /\ <<"a.py", "main">> \in DOMAIN cache
    /\ cache[<<"a.py", "main">>] = extract_symbols(call.source_code, call.file_path)
    /\ <<"b.py", "HEAD">> \notin DOMAIN cache

\* clear_file of a.py at HEAD has left the entry of a.py at main
C20_WitnessClearFile ==
    /\ pc = "returned"
    /\ call.op = "clear_file"
    /\ call.file_path = "a.py"
    /\ call.ref = "HEAD"
    /\ DOMAIN cache = {<<"a.py", "main">>, <<"b.py", "HEAD">>}

(***************************************************************************)
(* analysis/ast_parser.py: extract_symbols and _walk_tree.  The syntax     *)
(* tree is what the tree-sitter parser hands over: a node has a type, its  *)
(* text (a list of lines, a line being a list of tokens), the rows of its  *)
(* start and end points (0-indexed) and its children.                      *)
(***************************************************************************)

Languages ==
    {"python", "javascript", "typescript", "tsx", "go", "rust", "java", "ruby",
     "php", "c", "cpp", "c_sharp", "swift", "kotlin"}

\* FUNCTION_NODE_TYPES.get(language_name, set())
FUNCTION_NODE_TYPES(language_name) ==
    CASE language_name = "python" -> {"function_definition"}
      [] language_name \in {"javascript", "typescript", "tsx", "go"} -> {"function_declaration"}
      [] language_name = "rust" -> {"function_item"}
      [] language_name \in {"java", "c_sharp"} -> {"method_declaration"}
      [] language_name = "ruby" -> {"method"}
      [] language_name \in {"c", "cpp"} -> {"function_definition"}
      [] OTHER -> {}

\* CLASS_NODE_TYPES.get(language_name, set())
CLASS_NODE_TYPES(language_name) ==
    CASE language_name = "python" -> {"class_definition"}
      [] language_name \in {"javascript", "typescript", "tsx"} -> {"class_declaration"}
      [] language_name = "rust" -> {"struct_item", "enum_item", "trait_item"}
      [] language_name \in {"java", "c_sharp"} -> {"class_declaration", "interface_declaration"}
      [] OTHER -> {}

\* METHOD_NODE_TYPES.get(language_name, set())
METHOD_NODE_TYPES(language_name) ==
    CASE language_name = "python" -> {"function_definition"}
      [] language_name \in {"javascript", "typescript", "tsx"} -> {"method_definition"}
      [] language_name \in {"go", "java", "c_sharp"} -> {"method_declaration"}
      [] OTHER -> {}

NAME_NODE_TYPES ==
    {"identifier", "type_identifier", "property_identifier", "field_identifier", "name"}

\* a tree-sitter Node
Node(type, text, start_row, end_row, children) ==
    [type |-> type, text |-> text, start_row |-> start_row, end_row |-> end_row,
     children |-> children]

\* Symbol(name=, symbol_type=, file_path=, start_line=, end_line=,
\* signature=, parent=)
DefinedSymbol(name, symbol_type, file_path, start_line, end_line, signature, parent) ==
    [symbol_type |-> symbol_type, signature |-> signature, parent |-> parent]
        @@ Symbol(name, file_path, start_line, end_line, {})

\* _get_name: the text of the first child that is a name node, or None
get_name(node) ==
    LET named == {i \in DOMAIN node.children : node.children[i].type \in NAME_NODE_TYPES}
    IN  IF named = {} THEN None ELSE node.children[Min(named)].text[1][1]

\* `if name:` is false for None and for the empty string
NameIsFalsy(name) == name = None \/ name = ""

\* _extract_signature: the first line of the node's text (the lines of the
\* trees walked here have no outer blanks and fewer than 200 characters)
extract_signature(node) == node.text[1]

\* the symbol appended for the node
SymbolOf(node, name, symbol_type, file_path, parent) ==
    DefinedSymbol(name, symbol_type, file_path, node.start_row + 1, node.end_row + 1,
                  extract_signature(node), parent)

\* a symbol type that ignores the enclosing class
FunctionSymbolType_AlwaysFunction(parent_class) == "function"

\* sym_type of a function node
FunctionSymbolType(parent_class) ==
    IF parent_class # None THEN "method" ELSE "function"

\* the TYPE_ALIAS symbols of a Go type_declaration
TypeSpecSymbols(node, file_path) ==
    LET specs == SelectSeq(node.children,
                           LAMBDA child : child.type = "type_spec"
                                            /\ ~NameIsFalsy(get_name(child)))
    IN  [i \in DOMAIN specs |->
            SymbolOf(node, get_name(specs[i]), "type_alias", file_path, None)]

RECURSIVE walk_tree(_, _, _, _, _, _, _)
\* _walk_tree: the symbols it appends
walk_tree(node, file_path, language, func_types, class_types, method_types, parent_class) ==
    LET name == get_name(node)
        children(parent) ==
            Flatten([i \in DOMAIN node.children |->
                        walk_tree(node.children[i], file_path, language, func_types,
                                  class_types, method_types, parent)])
    IN  IF node.type \in class_types
        THEN (IF NameIsFalsy(name) THEN <<>>
              ELSE <<SymbolOf(node, name, "class", file_path, None)>>)
                \o children(name)
        ELSE IF node.type \in func_types
        THEN (IF NameIsFalsy(name) THEN <<>>
              ELSE <<SymbolOf(node, name, FunctionSymbolType(parent_class), file_path,
                              parent_class)>>)
                \o children(parent_class)
        ELSE (IF language = "go" /\ node.type = "method_declaration" /\ ~NameIsFalsy(name)
              THEN <<SymbolOf(node, name, "method", file_path, None)>>
              ELSE <<>>)
                \o (IF language = "go" /\ node.type = "type_declaration"
                    THEN TypeSpecSymbols(node, file_path)
                    ELSE <<>>)
                \o children(parent_class)

\* extract_symbols on the tree the parser of the language returns
extract_symbols_of_tree(root_node, file_path, language_name) ==
    walk_tree(root_node, file_path, language_name,
              FUNCTION_NODE_TYPES(language_name), CLASS_NODE_TYPES(language_name),
              METHOD_NODE_TYPES(language_name), None)

\* detect_language, on the file paths used here
detect_language(file_path) ==
    CASE file_path = "m.py" -> "python"
      [] file_path = "m.js" -> "javascript"
      [] file_path = "m.go" -> "go"
      [] file_path = "m.java" -> "java"
      [] OTHER -> None

\* extract_symbols on a parsed file: no symbol for an unknown extension
extract_symbols_parsed(root_node, file_path) ==
    LET language_name == detect_language(file_path)
    IN  IF language_name = None THEN <<>>
        ELSE extract_symbols_of_tree(root_node, file_path, language_name)

(***************************************************************************)
(* Syntax trees.  A shape is a node without its position: a type, a name   *)
(* or none, and the shapes in its body.  Layout puts a shape on the rows   *)
(* from a start row on: one row for its own line, then the rows of its     *)
(* body; its name is a child on its own line.                              *)
(***************************************************************************)

NoName == <<>>

Shape(type, name, body) == [type |-> type, name |-> name, body |-> body]

RECURSIVE ShapeRows(_)
ShapeRows(shape) ==
    LET rows == [i \in DOMAIN shape.body |-> ShapeRows(shape.body[i])]
        sum[i \in 0..Len(rows)] == IF i = 0 THEN 0 ELSE sum[i - 1] + rows[i]
    IN  1 + sum[Len(rows)]

RowsBefore(body, i) ==
    LET sum[j \in 0..Len(body)] == IF j = 0 THEN 0 ELSE sum[j - 1] + ShapeRows(body[j])
    IN  sum[i - 1]

\* the type of the name child of a node
NameNodeType(type) ==
    CASE type = "method_definition" -> "property_identifier"
      [] type = "method_declaration" -> "field_identifier"
      [] type = "type_spec" -> "type_identifier"
      [] OTHER -> "identifier"

RECURSIVE Layout(_, _)
Layout(shape, row) ==
    LET name_child ==
            IF shape.name = NoName THEN <<>>
            ELSE <<Node(NameNodeType(shape.type), <<shape.name>>, row, row, <<>>)>>
        body == [i \in DOMAIN shape.body |->
                    Layout(shape.body[i], row + 1 + RowsBefore(shape.body, i))]
    IN  Node(shape.type,
             <<<<shape.type>> \o shape.name>> \o Flatten([i \in DOMAIN body |-> body[i].text]),
             row, row + ShapeRows(shape) - 1,
             name_child \o body)

\* the node types a tree of the file has, besides module and the name nodes
TreeTypes(file_path) ==
    CASE file_path = "m.py" -> {"class_definition", "function_definition", "block"}
      [] file_path = "m.js" ->
            {"class_declaration", "function_declaration", "method_definition", "class_body"}
      [] file_path = "m.go" ->
            {"function_declaration", "method_declaration", "type_declaration", "type_spec",
             "block"}
      [] file_path = "m.java" -> {"class_declaration", "method_declaration", "block"}
      [] OTHER -> {"function_definition"}

TreeFiles == {"m.py", "m.js", "m.go", "m.java", "m.xyz"}

\* the shapes nested three deep: the innermost named C or unnamed, the
\* middle ones named B, with an empty name, or unnamed, the outer ones named
\* A or unnamed
InnerShapes(file_path) ==
    {Shape(type, name, <<>>) : type \in TreeTypes(file_path), name \in {NoName, <<"C">>}}

MiddleShapes(file_path) ==
    {Shape(type, name, body) :
        type \in TreeTypes(file_path), name \in {NoName, <<"B">>, <<"">>},
        body \in SeqsUpTo(InnerShapes(file_path), 2)}

OuterShapes(file_path) ==
    {Shape(type, name, body) :
        type \in TreeTypes(file_path), name \in {NoName, <<"A">>},
        body \in SeqsUpTo(MiddleShapes(file_path), 1)}

\* the root nodes: a module holding one outer shape, after a first line
RootNodes(file_path) ==
    {Layout(Shape("module", NoName, <<Shape("comment", NoName, <<>>), shape>>), 0) :
        shape \in OuterShapes(file_path)}

ExtractSymbolsCall ==
    /\ pc = "idle"
    /\ \E file_path \in TreeFiles :
        \E root_node \in RootNodes(file_path) :
            /\ call' = [op |-> "extract_symbols", file_path |-> file_path,
                        root_node |-> root_node]
            /\ ret' = extract_symbols_parsed(root_node, file_path)
    /\ pc' = "returned"
    /\ UNCHANGED <<pos, scan, decisions, repo, cache, graph>>

NextAst ==
    \/ ExtractSymbolsCall
    \/ Return

SpecAst == InitIdle /\ [][NextAst]_vars

AstReturned ==
    pc = "returned" /\ call.op = "extract_symbols" /\ detect_language(call.file_path) # None

RECURSIVE NodePaths(_)
\* the nodes of a tree, each named by the child positions leading to it
NodePaths(node) ==
    {<<>>} \cup UNION {{<<i>> \o path : path \in NodePaths(node.children[i])} :
                            i \in DOMAIN node.children}

RECURSIVE NodeAt(_, _)
NodeAt(node, path) ==
    IF path = <<>> THEN node ELSE NodeAt(node.children[Head(path)], Tail(path))

\* p is a proper prefix of q: the node at p is an ancestor of the node at q
IsAncestor(p, q) == Len(p) < Len(q) /\ SubSeq(q, 1, Len(p)) = p

\* the node at p comes before the node at q in depth-first pre-order
PreOrderBefore(p, q) ==
    \/ IsAncestor(p, q)
    \/ \E k \in 1..Min({Len(p), Len(q)}) :
        /\ SubSeq(p, 1, k - 1) = SubSeq(q, 1, k - 1)
        /\ p[k] < q[k]

\* the name a node carries, if it has one that is not empty
IsNamed(node) ==
    \E i \in DOMAIN node.children :
        /\ node.children[i].type \in NAME_NODE_TYPES
        /\ \A j \in 1..(i - 1) : node.children[j].type \notin NAME_NODE_TYPES
        /\ node.children[i].text # <<<<"">>>>

NameOf(node) ==
    LET i == CHOOSE i \in DOMAIN node.children :
                /\ node.children[i].type \in NAME_NODE_TYPES
                /\ \A j \in 1..(i - 1) : node.children[j].type \notin NAME_NODE_TYPES
    IN  node.children[i].text[1][1]

\* the enclosing-class context of the node at the path: what the nearest
\* class-like ancestor is named, absent without such an ancestor or a name
ClassContext(root, language, path) ==
    LET classes == {p \in NodePaths(root) :
                        /\ IsAncestor(p, path)
                        /\ NodeAt(root, p).type \in CLASS_NODE_TYPES(language)}
        nearest == CHOOSE p \in classes : \A q \in classes : Len(q) <= Len(p)
    IN  IF classes = {} THEN None
        ELSE IF \E i \in DOMAIN NodeAt(root, nearest).children :
                    NodeAt(root, nearest).children[i].type \in NAME_NODE_TYPES
        THEN NameOf(NodeAt(root, nearest))
        ELSE None

\* the named class-like and function-like nodes
DefinitionPaths(root, language) ==
    {p \in NodePaths(root) :
        /\ NodeAt(root, p).type \in CLASS_NODE_TYPES(language) \cup FUNCTION_NODE_TYPES(language)
        /\ IsNamed(NodeAt(root, p))}

\* the k-th of the paths in pre-order
KthInPreOrder(paths, k) ==
    CHOOSE p \in paths : Cardinality({q \in paths : PreOrderBefore(q, p)}) = k - 1

\* the symbols of class-like and function-like nodes among the symbols: those
\* of type class or function, and the methods that have a parent
ClassAndFunctionSymbols(symbols) ==
    SelectSeq(symbols, LAMBDA sym :
        \/ sym.symbol_type \in {"class", "function"}
        \/ sym.symbol_type = "method" /\ sym.parent # None)

\* C21: the symbols of class-like and function-like nodes come in
\* depth-first pre-order, one for each named node; a class-like node gives a
\* class symbol, a function-like node a function without parent when no
\* class context encloses it and a method whose parent is the context
\* otherwise, the context being that of the nearest class-like ancestor
\* also for nested definitions; an unnamed class-like node gives no symbol
\* and its children are still visited; start_line and end_line are the
\* 1-indexed lines the node spans
C21_WalkTree ==
    AstReturned =>
        LET root == call.root_node
            language == detect_language(call.file_path)
            paths == DefinitionPaths(root, language)
            emitted == ClassAndFunctionSymbols(ret)
        IN  /\ Len(emitted) = Cardinality(paths)
            /\ \A k \in DOMAIN emitted :
                LET path == KthInPreOrder(paths, k)
                    node == NodeAt(root, path)
                    context == ClassContext(root, language, path)
                    sym == emitted[k]
                IN  /\ sym.name = NameOf(node)
                    /\ sym.file_path = call.file_path
                    /\ node.type \in CLASS_NODE_TYPES(language) =>
                        sym.symbol_type = "class" /\ sym.parent = None
                    /\ node.type \notin CLASS_NODE_TYPES(language) =>
                        /\ context = None => sym.symbol_type = "function" /\ sym.parent = None
                        /\ context # None => sym.symbol_type = "method" /\ sym.parent = context
                    /\ sym.end_line - sym.start_line + 1 = Len(node.text)
                    /\ SubSeq(root.text, sym.start_line, sym.end_line) = node.text

\* a class A holding a function B that holds a function C and an unnamed
\* function: class A on lines 3 to 6, then methods B and C of A
C21_Witness ==
    /\ AstReturned
    /\ call.file_path = "m.py"
    /\ Len(ret) = 3
    /\ ret[1].name = "A" /\ ret[1].symbol_type = "class"
    /\ ret[1].start_line = 3 /\ ret[1].end_line = 6
    /\ ret[2].name = "B" /\ ret[2].symbol_type = "method" /\ ret[2].parent = "A"
    /\ ret[3].name = "C" /\ ret[3].symbol_type = "method" /\ ret[3].parent = "A"
    /\ ret[3].start_line = 5 /\ ret[3].end_line = 5
    /\ Cardinality({p \in NodePaths(call.root_node) :
                        NodeAt(call.root_node, p).type = "function_definition"}) = 3

\* an unnamed class inside a class: the function in it is a function
C21_WitnessUnnamedClass ==
    /\ AstReturned
    /\ call.file_path = "m.py"
    /\ Len(ret) = 2
    /\ ret[1].name = "A" /\ ret[1].symbol_type = "class"
    /\ ret[2].name = "C" /\ ret[2].symbol_type = "function" /\ ret[2].parent = None
    /\ \E p \in NodePaths(call.root_node) :
        /\ NodeAt(call.root_node, p).type = "class_definition"
        /\ ~IsNamed(NodeAt(call.root_node, p))
        /\ Len(p) = 2

\* the languages whose method node type is not their function node type
DistinctMethodLanguages ==
    {language \in Languages :
        /\ METHOD_NODE_TYPES(language) # {}
        /\ METHOD_NODE_TYPES(language) \cap FUNCTION_NODE_TYPES(language) = {}}

\* the named nodes of the method node type
MethodPaths(root, language) ==
    {p \in NodePaths(root) :
        /\ NodeAt(root, p).type \in METHOD_NODE_TYPES(language)
        /\ IsNamed(NodeAt(root, p))}

\* C22: in a language whose method node type is distinct from its function
\* node type, every named node of the method node type yields exactly one
\* METHOD symbol, whatever the enclosing-class context
C22_MethodNodes ==
    (AstReturned /\ detect_language(call.file_path) \in DistinctMethodLanguages) =>
        \A p \in MethodPaths(call.root_node, detect_language(call.file_path)) :
            LET node == NodeAt(call.root_node, p)
            IN  Cardinality({k \in DOMAIN ret :
                                /\ ret[k].symbol_type = "method"
                                /\ ret[k].name = NameOf(node)
                                /\ ret[k].start_line = node.start_row + 1
                                /\ ret[k].end_line = node.end_row + 1}) = 1

\* the same for Go alone, whose method_declaration _walk_tree names
C22_HoldsForGo ==
    (AstReturned /\ detect_language(call.file_path) = "go") =>
        \A p \in MethodPaths(call.root_node, "go") :
            LET node == NodeAt(call.root_node, p)
            IN  Cardinality({k \in DOMAIN ret :
                                /\ ret[k].symbol_type = "method"
                                /\ ret[k].name = NameOf(node)
                                /\ ret[k].start_line = node.start_row + 1
                                /\ ret[k].end_line = node.end_row + 1}) = 1

(***************************************************************************)
(* compute_file_overlaps on the PRs as analyze_pr prepares them, in a      *)
(* repository with the two open PRs 1 and 2                                *)
(***************************************************************************)

InitOverlaps ==
    /\ InitEngine
    /\ Len(repo.prs) = 2

\* steps 1 and 2 of analyze_pr, then compute_file_overlaps of step 4
ComputeFileOverlapsCall ==
    /\ pc = "idle"
    /\ \E pr_number \in {1, 2} :
        LET fetched == [get_pr(pr_number) EXCEPT !.changed_files = get_pr_files(pr_number)]
            target == enrich_pr(fetched, cache)
            others == EnrichOthers(get_open_prs(max_open_prs), pr_number, target.cache)
        IN  /\ call' = [op |-> "compute_file_overlaps", target_pr |-> target.pr,
                        other_prs |-> others.prs]
            /\ ret' = compute_file_overlaps(target.pr, others.prs)
            /\ cache' = others.cache
    /\ pc' = "returned"
    /\ UNCHANGED <<pos, scan, decisions, repo, graph>>

\* compute_file_overlaps and classify_conflicts on the two enriched PRs,
\* with each of them as the target in turn
conflicts_between(target_pr, other_pr) ==
    classify_conflicts(target_pr, other_pr,
                       OverlapsWith(compute_file_overlaps(target_pr, <<other_pr>>),
                                    other_pr.number))

ClassifyBothWaysCall ==
    /\ pc = "idle"
    /\ \E a \in {1, 2} :
        LET b == 3 - a
            first == enrich_pr([get_pr(a) EXCEPT !.changed_files = get_pr_files(a)], cache)
            second == enrich_pr([get_pr(b) EXCEPT !.changed_files = get_pr_files(b)],
                                first.cache)
        IN  /\ call' = [op |-> "classify_both_ways", a |-> first.pr, b |-> second.pr]
            /\ ret' = [a_target |-> conflicts_between(first.pr, second.pr),
                       b_target |-> conflicts_between(second.pr, first.pr)]
            /\ cache' = second.cache
    /\ pc' = "returned"
    /\ UNCHANGED <<pos, scan, decisions, repo, graph>>

NextOverlaps ==
    \/ ComputeFileOverlapsCall
    \/ ClassifyBothWaysCall
    \/ Return

SpecOverlaps == InitOverlaps /\ [][NextOverlaps]_vars

OverlapsReturned == pc = "returned" /\ call.op = "compute_file_overlaps"

\* the modified line-range list of the PR's patch of the path: one range
\* per hunk that has added lines
ModifiedRangeList(number, path) ==
    LET patched == SelectSeq(get_pr_files(number),
                             LAMBDA f : f.path = path /\ ~PatchIsFalsy(f.patch))
    IN  IF patched = <<>> THEN <<>>
        ELSE all_modified_line_ranges(
                parse_unified_diff(<<DiffHeaderLine(path, path)>> \o patched[1].patch)[1])

\* some added-line range of one PR intersects one of the other in the path
AddedRangesIntersect(a, b, path) ==
    \E ra \in AddedRanges(a, path), rb \in AddedRanges(b, path) :
        RangesOverlap(ra[1], ra[2], rb[1], rb[2])

\* C23: in every FileOverlap that compute_file_overlaps returns, pr_a_lines
\* and pr_b_lines are the complete modified line-range lists of the two
\* change sets for the file, so has_line_overlap is true iff some
\* added-line range of one intersects some added-line range of the other
C23_CompleteRangeLists ==
    OverlapsReturned =>
        \A n \in DOMAIN ret :
            \A k \in DOMAIN ret[n] :
                LET overlap == ret[n][k]
                IN  /\ overlap.pr_a_lines = ModifiedRangeList(overlap.pr_a, overlap.file_path)
                    /\ overlap.pr_b_lines = ModifiedRangeList(overlap.pr_b, overlap.file_path)
                    /\ has_line_overlap(overlap)
                        <=> AddedRangesIntersect(overlap.pr_a, overlap.pr_b, overlap.file_path)

\* the statement holds for the files in which each patch has at most one
\* hunk with added lines
C23_HoldsForOneRange ==
    OverlapsReturned =>
        \A n \in DOMAIN ret :
            \A k \in DOMAIN ret[n] :
                LET overlap == ret[n][k]
                IN  (/\ Len(ModifiedRangeList(overlap.pr_a, overlap.file_path)) <= 1
                     /\ Len(ModifiedRangeList(overlap.pr_b, overlap.file_path)) <= 1)
                    => /\ overlap.pr_a_lines
                            = ModifiedRangeList(overlap.pr_a, overlap.file_path)
                       /\ overlap.pr_b_lines
                            = ModifiedRangeList(overlap.pr_b, overlap.file_path)
                       /\ has_line_overlap(overlap)
                            <=> AddedRangesIntersect(overlap.pr_a, overlap.pr_b,
                                                     overlap.file_path)

\* the PRs that _enrich_pr has enriched for the call
EnrichedPRs ==
    {call.target_pr} \cup {pr \in Range(call.other_prs) : pr.number # call.target_pr.number}

\* the changed entity carries a modified range of its file that intersects
\* the symbol's lines
ResponsibleRange(number, cs) ==
    /\ cs.diff_lines \in AddedRanges(number, cs.symbol.file_path)
    /\ RangesOverlap(cs.diff_lines[1], cs.diff_lines[2],
                     cs.symbol.start_line, cs.symbol.end_line)

\* C24: every changed entity appended by _enrich_pr carries as diff_lines
\* one of the modified ranges of its file, and that range intersects the
\* symbol's [start_line, end_line] interval
C24_ResponsibleDiffLines ==
    OverlapsReturned =>
        \A pr \in EnrichedPRs :
            \A k \in DOMAIN pr.changed_symbols :
                ResponsibleRange(pr.number, pr.changed_symbols[k])

\* diff_lines is always one of the file's modified ranges, and it
\* intersects the symbol where the patch has one hunk with added lines
C24_HoldsForOneRange ==
    OverlapsReturned =>
        \A pr \in EnrichedPRs :
            \A k \in DOMAIN pr.changed_symbols :
                LET cs == pr.changed_symbols[k]
                IN  /\ cs.diff_lines \in AddedRanges(pr.number, cs.symbol.file_path)
                    /\ Cardinality(AddedRanges(pr.number, cs.symbol.file_path)) = 1
                        => ResponsibleRange(pr.number, cs)

(***************************************************************************)
(* A DependencyGraph constructed with an edge list, then add_edge calls    *)
(***************************************************************************)

\* DependencyGraph(edges=...): the dataclass stores the list; _forward and
\* _reverse get their default, the empty dict
DependencyGraphOf(edges) == [edges |-> edges, forward |-> <<>>, reverse |-> <<>>]

InitialEdgeLists ==
    {<<>>, <<CandidateEdges[1]>>, <<CandidateEdges[1], CandidateEdges[2]>>,
     <<CandidateEdges[8]>>}

InitBuild ==
    /\ pc = "idle"
    /\ call = NoCall
    /\ ret = NoRet
    /\ pos = 0
    /\ scan = ScanInit
    /\ decisions = <<>>
    /\ repo = <<>>
    /\ cache = <<>>
    /\ graph \in {DependencyGraphOf(edges) : edges \in InitialEdgeLists}

NextBuild ==
    \/ AddEdge
    \/ DependencyDepthCall
    \/ Return

SpecBuild == InitBuild /\ [][NextBuild]_vars

\* the edge list holds an edge from the source to the target
HasEdge(edges, source_file, target_file) ==
    \E i \in DOMAIN edges :
        edges[i].source_file = source_file /\ edges[i].target_file = target_file

\* C25: the forward index maps s to a set containing t iff the edge list
\* holds an edge with source s and target t, and the reverse index maps t
\* to a set containing s iff the edge list holds such an edge, in every
\* state reached by constructing a DependencyGraph with any initial edge
\* list and then applying add_edge calls
C25_AdjacencyMatchesEdges ==
    \A s \in GraphFiles, t \in GraphFiles :
        /\ (s \in DOMAIN graph.forward /\ t \in graph.forward[s])
            <=> HasEdge(graph.edges, s, t)
        /\ (t \in DOMAIN graph.reverse /\ s \in graph.reverse[t])
            <=> HasEdge(graph.edges, s, t)

\* the indexes match the edge list in every graph constructed without edges
\* and grown by add_edge, the same edge added twice included
C25_HoldsFromNoEdges ==
    /\ C25_AdjacencyMatchesEdges
    /\ DOMAIN graph.forward \cup DOMAIN graph.reverse \subseteq GraphFiles

(***************************************************************************)
(* Concurrent get_symbols calls on one SymbolIndex: each call does its     *)
(* lookup, its extraction and its write-back as separate steps             *)
(***************************************************************************)

Callers == {1, 2, 3}

\* the caches the calls start on: nothing, another ref of the path, another
\* path, or the key itself already cached
CachesBefore(file_path, ref) ==
    LET other_ref == IF ref = "HEAD" THEN "main" ELSE "HEAD"
        other_path == IF file_path = "a.py" THEN "b.py" ELSE "a.py"
    IN  {<<>>,
         [k \in {<<file_path, other_ref>>} |-> SymbolsOfB],
         [k \in {<<other_path, ref>>, <<file_path, other_ref>>} |-> SymbolsOfA],
         [k \in {<<file_path, ref>>, <<other_path, ref>>} |-> SymbolsOfB]}

InitConcurrent ==
    /\ \E file_path \in IndexPaths, ref \in IndexRefs :
        \E source_code \in IndexSources(file_path) :
            /\ call = [op |-> "get_symbols", file_path |-> file_path,
                       source_code |-> source_code, ref |-> ref]
            /\ cache \in CachesBefore(file_path, ref)
    /\ pc = [c \in Callers |-> "lookup"]
    /\ ret = [c \in Callers |-> [symbols |-> <<>>, returned |-> <<>>]]
    /\ pos = 0
    \* the cache as it is before the calls, kept for comparison
    /\ scan = [cache_before |-> cache]
    /\ decisions = <<>>
    /\ repo = <<>>
    /\ graph = DependencyGraph

\* self._cache[cache_key] = symbols, with every other entry dropped
write_back_DropsOthers(index, cache_key, symbols) ==
    [k \in {cache_key} |-> symbols]

\* self._cache[cache_key] = symbols
write_back(index, cache_key, symbols) ==
    [k \in DOMAIN index \cup {cache_key} |-> IF k = cache_key THEN symbols ELSE index[k]]

\* if cache_key in self._cache: return self._cache[cache_key]
Lookup(c) ==
    /\ pc[c] = "lookup"
    /\ LET cache_key == <<call.file_path, call.ref>>
       IN  IF cache_key \in DOMAIN cache
           THEN /\ ret' = [ret EXCEPT ![c].returned = <<cache[cache_key]>>]
                /\ pc' = [pc EXCEPT ![c] = "done"]
           ELSE /\ pc' = [pc EXCEPT ![c] = "extract"]
                /\ ret' = ret
    /\ UNCHANGED <<call, pos, scan, decisions, repo, cache, graph>>

\* symbols = extract_symbols(source_code, file_path)
Extract(c) ==
    /\ pc[c] = "extract"
    /\ ret' = [ret EXCEPT ![c].symbols =
                    <<extract_symbols(call.source_code, call.file_path)>>]
    /\ pc' = [pc EXCEPT ![c] = "write"]
    /\ UNCHANGED <<call, pos, scan, decisions, repo, cache, graph>>

\* self._cache[cache_key] = symbols; return symbols
WriteBack(c) ==
    /\ pc[c] = "write"
    /\ cache' = write_back(cache, <<call.file_path, call.ref>>, ret[c].symbols[1])
    /\ ret' = [ret EXCEPT ![c].returned = ret[c].symbols]
    /\ pc' = [pc EXCEPT ![c] = "done"]
    /\ UNCHANGED <<call, pos, scan, decisions, repo, graph>>

NextConcurrent ==
    \/ \E c \in Callers : Lookup(c)
    \/ \E c \in Callers : Extract(c)
    \/ \E c \in Callers : WriteBack(c)

SpecConcurrent == InitConcurrent /\ [][NextConcurrent]_vars

AllReturned == \A c \in Callers : pc[c] = "done"

\* C26: when all the interleaved get_symbols calls for one key and one
\* source text have returned, they have returned equal symbol lists, the
\* cache holds that list under the key, and the entries of all other keys
\* are as they were before the calls
C26_ConcurrentMisses ==
    AllReturned =>
        LET cache_key == <<call.file_path, call.ref>>
        IN  /\ \A c, d \in Callers : ret[c].returned = ret[d].returned
            /\ cache_key \in DOMAIN cache
            /\ \A c \in Callers : ret[c].returned = <<cache[cache_key]>>
            /\ DOMAIN cache \ {cache_key} = DOMAIN scan.cache_before \ {cache_key}
            /\ \A k \in DOMAIN cache \ {cache_key} : cache[k] = scan.cache_before[k]

\* all three calls missed and extracted, on a cache that held two other keys
C26_Witness ==
    /\ AllReturned
    /\ \A c \in Callers : ret[c].symbols # <<>>
    /\ Cardinality(DOMAIN scan.cache_before) = 2
    /\ Cardinality(DOMAIN cache) = 3

\* one call missed and wrote, a later one found the entry
C26_WitnessHitAfterMiss ==
    /\ AllReturned
    /\ \E c, d \in Callers : ret[c].symbols # <<>> /\ ret[d].symbols = <<>>

\* the PR is in no_conflict_prs iff the report has no conflict with it
ClearIffNoConflict(number) ==
    (\E k \in DOMAIN ret.no_conflict_prs : ret.no_conflict_prs[k] = number)
        <=> (\A k \in DOMAIN ret.conflicts : ret.conflicts[k].target_pr # number)

\* the analyzed PR is neither in no_conflict_prs nor the target of a conflict
SelfLeftOut ==
    /\ \A k \in DOMAIN ret.no_conflict_prs : ret.no_conflict_prs[k] # call.pr_number
    /\ \A k \in DOMAIN ret.conflicts : ret.conflicts[k].target_pr # call.pr_number

\* C27 (as stated): in every report, each open PR other than the analyzed
\* one is in no_conflict_prs iff the report has no conflict whose target_pr
\* is that PR; the analyzed PR's own number is never in no_conflict_prs and
\* never the target_pr of a conflict
C27_PartitionOfOpen ==
    AnalyzeReturned =>
        /\ \A n \in OpenNumbers \ {call.pr_number} : ClearIffNoConflict(n)
        /\ SelfLeftOut

\* C27 (amended): the same for each other open PR among the first
\* max_open_prs open PRs in the order of their last update
C27_PartitionOfListed ==
    AnalyzeReturned =>
        /\ \A n \in ListedNumbers \ {call.pr_number} : ClearIffNoConflict(n)
        /\ SelfLeftOut

\* the report on PR 2 in the crowded repository, where PR 2 is not listed:
\* conflicts with PR 1, and all the other listed PRs in no_conflict_prs
C27_WitnessCrowded ==
    /\ AnalyzeReturned
    /\ call.pr_number = 2
    /\ Len(repo.prs) > 2
    /\ ret.conflicts # <<>>
    /\ \A k \in DOMAIN ret.conflicts : ret.conflicts[k].target_pr = 1
    /\ Len(ret.no_conflict_prs) = Len(repo.prs) - 2

\* the report on PR 1 has conflicts with PR 2, which shares a.py with it,
\* and an empty no_conflict_prs
C27_Witness ==
    /\ AnalyzeReturned
    /\ call.pr_number = 1
    /\ OpenNumbers = {1, 2}
    /\ ret.conflicts # <<>>
    /\ ret.no_conflict_prs = <<>>
    /\ "a.py" \in PathsOf(1) \cap PathsOf(2)

BothWaysReturned == pc = "returned" /\ call.op = "classify_both_ways"

\* the (type, severity, file path, symbol name) tuples of the HARD and
\* BEHAVIORAL conflicts of the list
TextualTuples(conflicts) ==
    {<<conflicts[k].conflict_type, conflicts[k].severity, conflicts[k].file_path,
       conflicts[k].symbol_name>> :
        k \in {i \in DOMAIN conflicts : conflicts[i].conflict_type \in {"hard", "behavioral"}}}

\* C28: the tuples (type, severity, file path, symbol name) of the HARD and
\* BEHAVIORAL conflicts that compute_file_overlaps and classify_conflicts
\* produce for two enriched change sets are the same whichever of the two
\* is the target; source_pr and target_pr are swapped
C28_TextualSymmetry ==
    BothWaysReturned =>
        /\ TextualTuples(ret.a_target) = TextualTuples(ret.b_target)
        /\ \A k \in DOMAIN ret.a_target :
            /\ ret.a_target[k].source_pr = call.a.number
            /\ ret.a_target[k].target_pr = call.b.number
        /\ \A k \in DOMAIN ret.b_target :
            /\ ret.b_target[k].source_pr = call.b.number
            /\ ret.b_target[k].target_pr = call.a.number

\* a pair with two or more textual conflicts, one of them HARD, where one
\* PR changes an entity of a.py that the other one leaves alone
C28_Witness ==
    /\ BothWaysReturned
    /\ \E t \in TextualTuples(ret.a_target) : t[1] = "hard"
    /\ Cardinality(TextualTuples(ret.a_target)) >= 2
    /\ SymbolNamesIn(call.a, "a.py") # SymbolNamesIn(call.b, "a.py")
    /\ SymbolNamesIn(call.a, "a.py") \cap SymbolNamesIn(call.b, "a.py") # {}

\* a pair with a BEHAVIORAL conflict
C28_WitnessBehavioral ==
    /\ BothWaysReturned
    /\ \E t \in TextualTuples(ret.a_target) : t[1] = "behavioral"
    /\ SymbolNamesIn(call.a, "a.py") # SymbolNamesIn(call.b, "a.py")

C30_RiskScoreAtMost34 ==
    AnalyzeReturned =>
        /\ ret.risk_score <= 34 * 100 * ScoreUnit
        /\ ret.risk_score < 50 * 100 * ScoreUnit

\* a report with two CRITICAL conflicts on a PR of confirmed AI attribution:
\* 0.30 * 100 + 0.10 * 40
C30_Witness ==
    /\ AnalyzeReturned
    /\ ret.pr.ai_attribution = "ai_confirmed"
    /\ Cardinality({k \in DOMAIN ret.conflicts : ret.conflicts[k].severity = "critical"}) >= 2
    /\ ret.risk_score = 34 * 100 * ScoreUnit

====
